---- MODULE Spec2Model ----
(***************************************************************************)
(* A model of jester's Vulkan backend (b_vk::VkBackend) as driven by the   *)
(* single-threaded winit event loop of jester::App: the swapchain           *)
(* lifecycle, the ring of in-flight frame slots, the shared instance       *)
(* buffer, and the GPU that completes submitted frames asynchronously.     *)
(***************************************************************************)
EXTENDS Integers, Sequences, FiniteSets, TLC

\* ------------------------------------------------------------ constants
MAX_FRAMES_IN_FLIGHT == 2
MAX_SPRITES == 10000
MAX_TEXTURES == 256
\* size_of::<SpriteInstance>(): two [f32; 4]
InstSize == 32
\* u32::MAX (0xFFFFFFFF), the "undefined current extent" sentinel of the surface,
\* written as the 32-bit pattern's signed value: TLC's integers are 32-bit signed
U32Max == -1

\* ---------------------------------------------------------------- bounds
\* draw_sprites calls per frame
MaxDraws == 2
\* textures loaded where frames are drawn with them
MaxFrameTextures == 1
\* create_texture calls that reach the GPU where calls fail and succeed
MaxTexAllocs == 3
\* scenes added to an App, entities spawned by its scenes
MaxScenes == 2
MaxEntities == 2
MaxKeyEvents == 3
MaxPreset == 3
MaxDt == 4
\* the numbers of cameras and of loaded textures an App gets to
CameraCounts == 0 .. 1
SlotCounts == 0 .. 2
\* usize::MAX, the key of no scene, as the signed value of its bit pattern
NoScene == -1
SceneTypes == {"A", "B"}
\* the key codes of the keyboard events
Keys == {"KeyA", "KeyB"}
\* the cursor positions of the CursorMoved events
MousePositions == 0 .. 1

Slots == 0 .. (MAX_FRAMES_IN_FLIGHT - 1)
\* window sizes: they differ in width only, in height only, and in both
Extents == {[width |-> 800, height |-> 600], [width |-> 800, height |-> 768],
            [width |-> 1024, height |-> 768]}
\* how many images the driver hands out for a swapchain
ImageCounts == {2, 3}
\* the image indices acquire_next_image can return
ImageIndices == 0 .. 2
\* batch.instances.len() of the batches drawn
BatchLens == {0, 1, MAX_SPRITES, MAX_SPRITES + 1}
\* where create_swapchain can fail: the surface queries, the swapchain create
\* call, get_swapchain_images, an image view, a semaphore, a framebuffer
FailPoints == {"none", "query", "create", "images", "views", "sems", "fbs"}
AcquireResults == {"ok", "suboptimal", "out_of_date"}
PresentResults == {"ok", "suboptimal", "out_of_date"}
\* (min_image_count, max_image_count) of the surface: max is 0 (no maximum) or
\* at least min
ImageCountCaps ==
    {c \in [min : 1 .. 3, max : 0 .. 4] : c.max = 0 \/ c.max >= c.min}
\* batch.tex.0 of the batches drawn
TexIds == 0 .. 1
\* (width, height, pixels.len()) of create_texture: RGBA-8 images, a buffer one
\* byte short, and a 65536 x 16384 image, whose byte size is 2^32, with no pixels
TextureInputs ==
    {[width |-> 1, height |-> 1, len |-> 4],
     [width |-> 2, height |-> 2, len |-> 16],
     [width |-> 1, height |-> 1, len |-> 3],
     [width |-> 65536, height |-> 16384, len |-> 0]}
\* the fallible steps of create_texture, in the order of the code: "staging"
\* and "memory_type" panic (unwrap and expect), the others are the ? of a driver
\* call and return its error
TexSteps == <<"staging", "map", "image", "memory_type", "memory", "bind",
              "cmd_buffer", "fence", "wait", "view", "sampler", "descriptor_set">>
TexFailPoints == {"none"} \cup {TexSteps[i] : i \in 1 .. Len(TexSteps)}
\* (a create_texture that unwraps every driver result)
TexPanicPointsEveryStep == {TexSteps[i] : i \in 1 .. Len(TexSteps)}

TexPanicPoints == {"staging", "memory_type"}

VARIABLES
    frame_idx,            \* VkBackend.frame_idx
    swapchain_rebuild,    \* VkBackend.swapchain_rebuild
    surface_resolution,   \* VkBackend.surface_resolution
    instance_cursor,      \* VkBackend.instance_cursor
    current_img,          \* VkBackend.current_img
    swapchain,            \* VkBackend.swapchain: [gen, n, live]
    present_images,       \* VkBackend.present_images: [gen, n]
    present_image_views,  \* VkBackend.present_image_views: [gen, n, live]
    render_finished,      \* VkBackend.render_finished: [gen, n, live]
    framebuffers,         \* VkBackend.framebuffers: [gen, n, live]
    in_flight_fence,      \* slot -> the fence is signaled
    cmds,                 \* slot -> state of the slot's command buffer
    gpu_queue,            \* frames submitted to present_queue, not yet completed
    win_size,             \* the window's pixel size (last Resized event)
    extent_defined,       \* the surface reports a current extent (no sentinel)
    pc,                   \* "idle" | "frame" | "panicked" | "dropped"
    draws,                \* draw_sprites calls made in the frame being recorded
    writes,               \* byte ranges of the instance buffer they wrote
    images,               \* VkBackend.images: the handle of each entry
    image_mem,            \* VkBackend.image_mem
    image_views,          \* VkBackend.image_views
    samplers,             \* VkBackend.samplers
    descriptor_sets,      \* VkBackend.descriptor_sets
    tex_allocs,           \* create_texture calls that have allocated on the GPU
    issued,               \* the TextureIds returned so far: [id, handle]
    image_available,      \* slot -> state of the slot's image-acquired semaphore
    rf_state,             \* image -> state of render_finished[image]
    sc_calls,             \* the driver calls of the last create_swapchain
    tex_calls,            \* the driver calls and the upload's completion in
                          \* the create_texture that produced this state
    surface_caps,         \* min_image_count, max_image_count of the surface
    desired_image_count,  \* min_image_count of the last swapchain create info
    last,                 \* the operation that produced this state
    app_pc,               \* "setup" | "running" | "panicked": App before run,
                          \* with a renderer, after a panic
    app_last,             \* the App method or window event handled last
    scenes,               \* App.scenes: [type, must_start, started]
    scene_lookup,         \* App.scene_lookup: scene type -> key, or NoScene
    active_scene,         \* App.active_scene
    cameras,              \* App.cameras (their number)
    next_id,              \* EntityPool.next_id
    entities,             \* EntityPool.entities: entity id -> TextureId
    lut,                  \* Renderer.lut: TextureId -> slot, or NoSlot
    tex_slots,            \* textures the renderer's backend has created
    batches,              \* App.batches: [tex, instances]
    calls,                \* renderer calls made by the handler of app_last
    forwarded,            \* the draw_sprites calls the renderer passed on to
                          \* its backend in that handler: [tex, idx]
    metadata,             \* Renderer.metadata: per index, <<>> (None) or
                          \* <<TextureMeta>> (Some)
    scene_calls,          \* what that handler did with the scenes, in order:
                          \* start, update, apply (apply_commands), activate
                          \* (a scene switch applied)
    input_state,          \* App.input_state: pressed, just_pressed,
                          \* just_released, mouse_pos
    key_down,             \* key -> whether its last keyboard event was a press
    unreported,           \* key -> it went from up to down since the last
                          \* scene update
    seen,                 \* the keys for which just_pressed held in the last
                          \* scene update
    timer,                \* a Timer: preset, remaining, mode ("none" before
                          \* Timer::new)
    timer_elapsed,        \* the dt ticked since new, reset or set, up to
                          \* ElapsedCap
    timer_fired,          \* the ticks that returned true since then, up to 2
    timer_last            \* the last Timer call: op, dt, result

scVars == <<surface_resolution, swapchain, present_images, present_image_views,
            render_finished, framebuffers>>
frameVars == <<frame_idx, instance_cursor, current_img, in_flight_fence, cmds,
               gpu_queue, draws, writes>>
\* A binary semaphore is "unsignaled", "signaled" (by acquire_next_image),
\* "waiting" (signaled, and a submitted wait will consume it) or "pending" (a
\* submitted batch will signal it and the present queued behind it will consume
\* that signal)
semVars == <<image_available, rf_state>>
capVars == <<surface_caps, desired_image_count>>
texArrays == <<images, image_mem, image_views, samplers, descriptor_sets>>
texVars == <<images, image_mem, image_views, samplers, descriptor_sets,
             tex_allocs, issued>>
backendVars == <<frame_idx, swapchain_rebuild, surface_resolution, instance_cursor,
                 current_img, swapchain, present_images, present_image_views,
                 render_finished, framebuffers, in_flight_fence, cmds,
                 images, image_mem, image_views, samplers, descriptor_sets>>
\* the backend, its surface and its queue
vkVars == <<frame_idx, swapchain_rebuild, surface_resolution, instance_cursor,
            current_img, swapchain, present_images, present_image_views,
            render_finished, framebuffers, in_flight_fence, cmds, gpu_queue,
            win_size, extent_defined, pc, draws, writes, images, image_mem,
            image_views, samplers, descriptor_sets, tex_allocs, issued,
            image_available, rf_state, sc_calls, tex_calls, surface_caps,
            desired_image_count, last>>
timerVars == <<timer, timer_elapsed, timer_fired, timer_last>>
inputVars == <<input_state, key_down, unreported, seen>>
appVars == <<app_pc, app_last, scenes, scene_lookup, active_scene, cameras,
             next_id, entities, lut, tex_slots, batches, calls, forwarded,
          metadata, scene_calls, input_state, key_down, unreported, seen>>
vars == <<frame_idx, swapchain_rebuild, surface_resolution, instance_cursor,
          current_img, swapchain, present_images, present_image_views,
          render_finished, framebuffers, in_flight_fence, cmds, gpu_queue,
          win_size, extent_defined, pc, draws, writes, images, image_mem,
          image_views,
          samplers, descriptor_sets, tex_allocs, issued, image_available,
          rf_state, sc_calls, tex_calls, surface_caps, desired_image_count,
          last, app_pc, app_last, scenes, scene_lookup, active_scene, cameras,
          next_id, entities, lut, tex_slots, batches, calls, forwarded,
          metadata, scene_calls, input_state, key_down, unreported, seen,
          timer, timer_elapsed, timer_fired, timer_last>>

\* The operation that produced a state: its name, the batch length of a
\* draw_sprites, the result of the driver call or "panic", and whether a
\* begin_frame rebuilt the swapchain ("none", "ok", "failed"). The size of a
\* handle_resize is win_size.
Op(op, len, result, rebuilt) ==
    [op |-> op, len |-> len, result |-> result, rebuilt |-> rebuilt]

\* A Vec of handles created together: generation, length, not yet destroyed.
\* The live handles a backend holds all come from the create_swapchain call that
\* made its swapchain, so two generations tell every new handle from the live
\* handle it replaces.
Vec(g, n, live) == [gen |-> g, n |-> n, live |-> live]
Destroyed(v) == [v EXCEPT !.live = FALSE]
NewGen(g) == IF g = 0 THEN 1 ELSE 0

\* ------------------------------------------------------------ the surface
\* caps.current_extent of get_physical_device_surface_capabilities
CurrentExtent ==
    IF extent_defined THEN win_size ELSE [width |-> U32Max, height |-> U32Max]

\* ------------------------------------------------------- create_swapchain
\* (caps.min_image_count + 1).min(caps.max_image_count.max(caps.min_image_count + 1))
Min(a, b) == IF a <= b THEN a ELSE b
Max(a, b) == IF a >= b THEN a ELSE b
DesiredImageCountRebuild(caps) == Min(caps.min + 1, Max(caps.max, caps.min + 1))

\* (a create_swapchain that takes the surface's extent whatever it is)
ChooseExtentOfSurface(caps_extent, window_width, window_height) == caps_extent

ChooseExtent(caps_extent, window_width, window_height) ==
    IF caps_extent.width = U32Max
    THEN [width |-> window_width, height |-> window_height]
    ELSE caps_extent

\* (a create_swapchain that creates the new swapchain before it destroys the
\* old objects)
SwapchainStepsCreateFirst ==
    <<"query", "create_swapchain", "destroy_framebuffers", "destroy_image_views",
      "destroy_semaphores", "destroy_swapchain", "get_swapchain_images",
      "create_image_views", "create_semaphores", "create_framebuffers">>

\* The driver calls of create_swapchain, in the order of its statements
SwapchainSteps ==
    <<"query", "destroy_framebuffers", "destroy_image_views",
      "destroy_semaphores", "destroy_swapchain", "create_swapchain",
      "get_swapchain_images", "create_image_views", "create_semaphores",
      "create_framebuffers">>

\* The driver call at which each fail point returns its error
FailingCall(fail) ==
    CASE fail = "query" -> "query"
      [] fail = "create" -> "create_swapchain"
      [] fail = "images" -> "get_swapchain_images"
      [] fail = "views" -> "create_image_views"
      [] fail = "sems" -> "create_semaphores"
      [] fail = "fbs" -> "create_framebuffers"

\* The calls made by a create_swapchain that fails at fail: those up to the
\* failing call, which returns through ?
SwapchainCalls(fail) ==
    IF fail = "none" THEN SwapchainSteps
    ELSE LET k == CHOOSE i \in 1 .. Len(SwapchainSteps) :
                      SwapchainSteps[i] = FailingCall(fail)
         IN SubSeq(SwapchainSteps, 1, k)

create_swapchain(window_width, window_height, fail, n) ==
    LET g == NewGen(swapchain.gen) IN
    /\ sc_calls' = SwapchainCalls(fail)
    /\ IF fail = "query"
       THEN UNCHANGED <<surface_resolution, swapchain, present_images,
                        present_image_views, render_finished, framebuffers,
                        rf_state, desired_image_count>>
       ELSE /\ desired_image_count' = DesiredImageCountRebuild(surface_caps)
            /\ rf_state' = [i \in ImageIndices |-> "unsignaled"]
            /\ surface_resolution' =
                   ChooseExtent(CurrentExtent, window_width, window_height)
            /\ swapchain' =
                   IF fail = "create"
                   THEN Destroyed(swapchain)
                   ELSE Vec(g, n, TRUE)
            /\ present_images' =
                   IF fail \in {"create", "images"}
                   THEN present_images
                   ELSE [gen |-> g, n |-> n]
            /\ present_image_views' =
                   IF fail \in {"create", "images", "views"}
                   THEN Destroyed(present_image_views)
                   ELSE Vec(g, n, TRUE)
            /\ render_finished' =
                   IF fail \in {"create", "images", "views", "sems"}
                   THEN Destroyed(render_finished)
                   ELSE Vec(g, n, TRUE)
            /\ framebuffers' =
                   IF fail \in {"create", "images", "views", "sems", "fbs"}
                   THEN Destroyed(framebuffers)
                   ELSE Vec(g, n, TRUE)

\* ---------------------------------------------------------- handle_resize
\* (a handle_resize that forgets the early return)
handle_resize_unconditional(size) ==
    swapchain_rebuild' = TRUE

handle_resize(size) ==
    swapchain_rebuild' =
        IF size.width = surface_resolution.width
           /\ size.height = surface_resolution.height
        THEN swapchain_rebuild
        ELSE TRUE

\* App::window_event, WindowEvent::Resized
HandleResize(size) ==
    /\ pc = "idle"
    /\ win_size' = size
    /\ handle_resize(size)
    /\ last' = Op("handle_resize", 0, "ok", "none")
    /\ tex_calls' = <<>>
    /\ UNCHANGED <<appVars, timerVars>>
    /\ UNCHANGED <<scVars, frameVars, texVars, semVars, sc_calls, capVars,
                   extent_defined, pc>>

\* ------------------------------------------------------------ begin_frame
\* (a rebuild that does not wait for the device)
DeviceWaitIdleSkipped == TRUE

\* device_wait_idle returns once the queue has drained
DeviceWaitIdle == gpu_queue = <<>>

\* (a begin_frame that does not wait for the slot's fence)
WaitForFencesSkipped(fi) == TRUE

\* wait_for_fences(&[in_flight_fence[fi]], true, u64::MAX)
WaitForFences(fi) == in_flight_fence[fi]

\* (a begin_frame that leaves the fence signaled)
ResetFencesForgotten(fi) == in_flight_fence

\* reset_fences(&[in_flight_fence[fi]])
ResetFences(fi) == [in_flight_fence EXCEPT ![fi] = FALSE]

\* (a begin_frame that leaves the pending-rebuild flag as it found it)
RebuildFlagKept == swapchain_rebuild

\* self.swapchain_rebuild = false, inside `if self.swapchain_rebuild`
RebuildFlagAfterBegin == FALSE

\* self.image_available[fi], the semaphore handed to acquire_next_image
AcquireSemaphore(fi) == fi

BeginFrame(fail, n, acq, idx, ub) ==
    LET fi == frame_idx IN
    /\ pc = "idle"
    /\ IF swapchain_rebuild
       THEN /\ DeviceWaitIdle
            /\ create_swapchain(surface_resolution.width,
                                surface_resolution.height, fail, n)
       ELSE /\ fail = "none"
            /\ n = swapchain.n
            /\ UNCHANGED <<scVars, rf_state, sc_calls, desired_image_count>>
    /\ swapchain_rebuild' = RebuildFlagAfterBegin
    /\ WaitForFences(fi)
    /\ in_flight_fence' = ResetFences(fi)
    \* acquire_next_image, with no timeout: the index of an image of the
    \* swapchain that the application does not hold and whose present has
    \* completed; on a destroyed swapchain handle the call is undefined and may
    \* return anything
    /\ idx \in ImageIndices
    /\ swapchain'.live => (idx < swapchain'.n /\ rf_state'[idx] = "unsignaled")
    /\ ub = "crash" => (~swapchain'.live \/ ~framebuffers'.live)
    /\ last' = Op("begin_frame", 0, acq,
                  IF ~swapchain_rebuild THEN "none"
                  ELSE IF fail = "none" THEN "ok" ELSE "failed")
    /\ IF acq = "out_of_date" \/ (ub = "crash" /\ ~swapchain'.live)
       THEN \* .unwrap() of the acquire result
            /\ pc' = "panicked"
            /\ UNCHANGED <<current_img, cmds, instance_cursor, image_available,
                           writes>>
       ELSE /\ current_img' = idx
            /\ image_available' =
                   [image_available EXCEPT ![AcquireSemaphore(fi)] = "signaled"]
            /\ cmds' = [cmds EXCEPT ![fi] = "recording"]
            /\ IF idx >= framebuffers'.n \/ ub = "crash"
               THEN \* framebuffers[current_img] out of bounds, or a destroyed
                    \* framebuffer handed to cmd_begin_render_pass
                    /\ pc' = "panicked"
                    /\ UNCHANGED <<instance_cursor, writes>>
               ELSE /\ pc' = "frame"
                    /\ instance_cursor' = 0
                    /\ writes' = <<>>
    /\ tex_calls' = <<>>
    /\ UNCHANGED <<appVars, timerVars>>
    /\ UNCHANGED <<frame_idx, gpu_queue, win_size, extent_defined, draws,
                   texVars, surface_caps>>

\* ----------------------------------------------------------- draw_sprites
Capacity == MAX_SPRITES * InstSize

\* (a draw_sprites that takes every batch for a batch with instances)
IsEmptyNever(len) == FALSE

\* batch.instances.is_empty()
IsEmpty(len) == len = 0

\* (a draw_sprites that leaves the cursor where it was)
CursorKept(cursor, byte_count) == cursor

\* self.instance_cursor += byte_count
CursorAdvanced(cursor, byte_count) == cursor + byte_count

DrawSprites(len, tex, ub) ==
    LET byte_count == len * InstSize IN
    /\ pc = "frame"
    /\ draws < MaxDraws
    /\ draws' = draws + 1
    /\ ub = "crash" => (len > 0 /\ len <= MAX_SPRITES
                        /\ instance_cursor + byte_count > Capacity)
    /\ IF IsEmpty(len)
       THEN /\ last' = Op("draw_sprites", len, "ok", "none")
            /\ UNCHANGED <<instance_cursor, pc, writes>>
       ELSE IF len > MAX_SPRITES \/ ub = "crash"
       THEN \* assert!(len <= MAX_SPRITES), or map_memory past the allocation
            \* refused by the driver and unwrapped
            /\ last' = Op("draw_sprites", len, "panic", "none")
            /\ pc' = "panicked"
            /\ UNCHANGED <<instance_cursor, writes>>
       ELSE \* map_memory(instance_vbo_mem, instance_cursor, byte_count) and
            \* copy_from_nonoverlapping
            /\ writes' = Append(writes, [offset |-> instance_cursor,
                                         size |-> byte_count])
            /\ IF tex >= Len(descriptor_sets)
               THEN \* descriptor_sets[batch.tex.0] out of bounds
                    /\ last' = Op("draw_sprites", len, "panic", "none")
                    /\ pc' = "panicked"
                    /\ UNCHANGED instance_cursor
               ELSE /\ last' = Op("draw_sprites", len, "ok", "none")
                    /\ instance_cursor' =
                           CursorAdvanced(instance_cursor, byte_count)
                    /\ UNCHANGED pc
    /\ tex_calls' = <<>>
    /\ UNCHANGED <<appVars, timerVars>>
    /\ UNCHANGED <<scVars, frame_idx, swapchain_rebuild, current_img,
                   in_flight_fence, cmds, gpu_queue, win_size, extent_defined,
                   texVars, semVars, sc_calls, capVars>>

\* --------------------------------------------------------- create_texture
\* A u32 as its four bytes, least significant first (TLC's integers are 32-bit
\* signed and cannot hold every u32)
ToU32(x) ==
    <<x % 256, (x \div 256) % 256, (x \div 65536) % 256, (x \div 16777216) % 256>>

\* The columns of the long multiplication of two u32, with carries
MulColumns(a, b) ==
    LET c0 == a[1] * b[1]
        c1 == a[1] * b[2] + a[2] * b[1] + (c0 \div 256)
        c2 == a[1] * b[3] + a[2] * b[2] + a[3] * b[1] + (c1 \div 256)
        c3 == a[1] * b[4] + a[2] * b[3] + a[3] * b[2] + a[4] * b[1] + (c2 \div 256)
        c4 == a[2] * b[4] + a[3] * b[3] + a[4] * b[2] + (c3 \div 256)
        c5 == a[3] * b[4] + a[4] * b[3] + (c4 \div 256)
        c6 == a[4] * b[4] + (c5 \div 256)
    IN <<c0, c1, c2, c3, c4, c5, c6>>

\* a * b on u32, wrapping (release builds)
MulU32(a, b) ==
    LET c == MulColumns(a, b) IN <<c[1] % 256, c[2] % 256, c[3] % 256, c[4] % 256>>

\* a * b does not fit a u32 (debug builds panic: "attempt to multiply with
\* overflow")
MulOverflows(a, b) ==
    LET c == MulColumns(a, b) IN c[5] # 0 \/ c[6] # 0 \/ c[7] # 0

\* (width * height * 4) as usize
TexelBytes(width, height) ==
    LET texels == MulU32(ToU32(width), ToU32(height)) IN MulU32(texels, ToU32(4))

TexelBytesOverflows(width, height) ==
    LET texels == MulU32(ToU32(width), ToU32(height)) IN
    \/ MulOverflows(ToU32(width), ToU32(height))
    \/ MulOverflows(texels, ToU32(4))

\* The position of a fail point among the steps; past the last for "none"
StepIndex(fail) ==
    IF fail = "none" THEN Len(TexSteps) + 1
    ELSE CHOOSE i \in 1 .. Len(TexSteps) : TexSteps[i] = fail

\* (a create_texture that pushes each handle as soon as it has created it)
KeepHandleAtCreation(array, step, handle, fail) ==
    IF StepIndex(fail) > StepIndex(step) THEN Append(array, handle) ELSE array

\* "keep handles": self.<array>.push(handle), reached when no step has failed;
\* step is the step that created the handle
KeepHandle(array, step, handle, fail) ==
    IF fail = "none" THEN Append(array, handle) ELSE array

\* (an id that is the length of the array after the push)
TextureIdOfLen(n) == n

\* TextureId((self.descriptor_sets.len() - 1) as u32)
TextureIdOf(n) == n - 1

\* (a texture limit that lets one texture too many in)
TextureLimitReachedLate(n) == n > MAX_TEXTURES

\* if self.images.len() >= MAX_TEXTURES
TextureLimitReached(n) == n >= MAX_TEXTURES

\* The semaphores after the submissions in q and the presents queued behind
\* them have executed: the semaphore each submission waited on is consumed, the
\* semaphore it signaled is consumed by its present
Executed(q) ==
    /\ image_available' =
           [s \in Slots |->
               IF \E i \in 1 .. Len(q) : q[i].wait = s
               THEN "unsignaled" ELSE image_available[s]]
    /\ rf_state' =
           [j \in ImageIndices |->
               IF \E i \in 1 .. Len(q) : q[i].img = j
               THEN "unsignaled" ELSE rf_state[j]]

\* wait_for_fences(&[tmp_fence], true, u64::MAX): the upload's fence is
\* signaled after everything submitted to the queue before it, so the wait
\* returns once the queue has drained
UploadWaited == gpu_queue = <<>>

\* The commands the upload records: UNDEFINED -> TRANSFER_DST_OPTIMAL, the
\* copy from the staging buffer, TRANSFER_DST_OPTIMAL -> SHADER_READ_ONLY
UploadCommands ==
    <<"barrier_to_transfer_dst", "copy_buffer_to_image",
      "barrier_to_shader_read_only">>

\* utils::record_submit_commandbuffer(device, tmp_cmd, tmp_fence, queue, ..):
\* the fence, created signaled, is reset, the commands are recorded and the
\* buffer is submitted with the fence
RecordSubmitCommandbuffer(commands) ==
    <<"reset_fences", "begin_command_buffer">> \o commands
        \o <<"end_command_buffer", "queue_submit">>

\* (a create_texture that frees the upload's objects before it waits)
WaitAndDestroyEarly ==
    <<"destroy_fence", "free_command_buffers", "destroy_buffer", "free_memory",
      "wait_for_fences">>

\* wait_for_fences(&[tmp_fence], true, u64::MAX)?, then the temporary fence,
\* the command buffer and the staging buffer are released
WaitAndDestroy ==
    <<"wait_for_fences", "destroy_fence", "free_command_buffers",
      "destroy_buffer", "free_memory">>

\* Every driver call of a create_texture that succeeds, in the order of the
\* code, ending with the five pushes
TextureCallsOk ==
    <<"create_buffer", "map_memory", "unmap_memory", "create_image",
      "get_image_memory_requirements", "allocate_memory", "bind_image_memory",
      "allocate_command_buffers", "create_fence">>
        \o RecordSubmitCommandbuffer(UploadCommands)
        \o WaitAndDestroy
        \o <<"create_image_view", "create_sampler", "allocate_descriptor_sets",
             "update_descriptor_sets", "push">>

\* The call in which each step fails
FailedCall(fail) ==
    CASE fail = "staging" -> "create_buffer"
      [] fail = "map" -> "map_memory"
      [] fail = "image" -> "create_image"
      [] fail = "memory_type" -> "get_image_memory_requirements"
      [] fail = "memory" -> "allocate_memory"
      [] fail = "bind" -> "bind_image_memory"
      [] fail = "cmd_buffer" -> "allocate_command_buffers"
      [] fail = "fence" -> "create_fence"
      [] fail = "wait" -> "wait_for_fences"
      [] fail = "view" -> "create_image_view"
      [] fail = "sampler" -> "create_sampler"
      [] fail = "descriptor_set" -> "allocate_descriptor_sets"
      [] fail = "none" -> "push"

\* The position of a call in a sequence of calls
CallIndex(seq, call) == CHOOSE i \in 1 .. Len(seq) : seq[i] = call

\* The calls of a create_texture up to the one that fails, with the moment
\* the GPU completes the upload: wait_for_fences returns with success only
\* once the fence, unsignaled since its reset, has been signaled by it
TextureCalls(fail) ==
    LET made == SubSeq(TextureCallsOk, 1,
                       CallIndex(TextureCallsOk, FailedCall(fail)))
        w == CallIndex(TextureCallsOk, "wait_for_fences")
    IN  IF Len(made) < w \/ fail = "wait" THEN made
        ELSE SubSeq(made, 1, w) \o <<"upload_complete">>
                 \o SubSeq(made, w + 1, Len(made))

\* overflow_checks: the build panics on integer overflow (debug) or wraps
CreateTexture(width, height, len, overflow_checks, fail) ==
    LET handle == tex_allocs + 1 IN
    /\ pc = "idle"
    /\ IF \/ overflow_checks /\ TexelBytesOverflows(width, height)
          \/ ToU32(len) # TexelBytes(width, height)
          \/ TextureLimitReached(Len(images))
       THEN \* the overflow panic, assert_eq! or panic!("texture limit reached")
            /\ fail = "none"
            /\ pc' = "panicked"
            /\ last' = Op("create_texture", 0, "panic", "none")
            /\ tex_calls' = <<>>
            /\ UNCHANGED texVars
       ELSE /\ tex_allocs' = handle
            /\ tex_calls' = TextureCalls(fail)
            /\ images' = KeepHandle(images, "image", handle, fail)
            /\ image_mem' = KeepHandle(image_mem, "memory", handle, fail)
            /\ image_views' = KeepHandle(image_views, "view", handle, fail)
            /\ samplers' = KeepHandle(samplers, "sampler", handle, fail)
            /\ descriptor_sets' =
                   KeepHandle(descriptor_sets, "descriptor_set", handle, fail)
            /\ StepIndex(fail) > StepIndex("wait") => UploadWaited
            /\ IF fail = "none"
               THEN /\ issued' = Append(issued,
                           [id |-> TextureIdOf(Len(descriptor_sets')),
                            handle |-> handle])
                    /\ last' = Op("create_texture", 0, "ok", "none")
                    /\ UNCHANGED pc
               ELSE /\ UNCHANGED issued
                    /\ last' = Op("create_texture", 0,
                                  IF fail \in TexPanicPoints THEN "panic"
                                  ELSE "err", "none")
                    /\ pc' = IF fail \in TexPanicPoints THEN "panicked" ELSE pc
    /\ UNCHANGED <<appVars, timerVars>>
    /\ UNCHANGED <<scVars, frameVars, semVars, swapchain_rebuild, win_size,
                   extent_defined, sc_calls, capVars>>

\* -------------------------------------------------------------- end_frame
\* (an end_frame that stays on its slot)
NextFrameIdxStuck(fi) == fi

\* (fi + 1) % Self::MAX_FRAMES_IN_FLIGHT
NextFrameIdx(fi) == (fi + 1) % MAX_FRAMES_IN_FLIGHT

\* (an end_frame that waits on the other slot's semaphore)
WaitSemaphoreOfOtherSlot(fi) == (fi + 1) % MAX_FRAMES_IN_FLIGHT

\* wait_semaphores(&self.image_available[fi])
WaitSemaphore(fi) == fi

EndFrame(pres) ==
    LET fi == frame_idx
        img == current_img
    IN
    /\ pc = "frame"
    /\ last' = Op("end_frame", 0, pres, "none")
    /\ draws' = 0
    /\ writes' = <<>>
    /\ IF img >= render_finished.n
       THEN \* render_finished[img] out of bounds
            /\ pc' = "panicked"
            /\ UNCHANGED <<cmds, gpu_queue, frame_idx, semVars>>
       ELSE /\ cmds' = [cmds EXCEPT ![fi] = "pending"]
            \* queue_submit: wait, command buffer, signal, fence of slot
            /\ gpu_queue' = Append(gpu_queue,
                   [slot |-> fi, reads |-> instance_cursor,
                    wait |-> WaitSemaphore(fi), img |-> img])
            /\ image_available' =
                   [image_available EXCEPT ![WaitSemaphore(fi)] = "waiting"]
            \* signal_semaphores of the submission, wait_semaphores of the
            \* present: both rf_sema
            /\ rf_state' = [rf_state EXCEPT ![img] = "pending"]
            /\ IF pres = "out_of_date"
               THEN \* .unwrap() of the present result
                    /\ pc' = "panicked"
                    /\ UNCHANGED frame_idx
               ELSE /\ pc' = "idle"
                    /\ frame_idx' = NextFrameIdx(fi)
    /\ tex_calls' = <<>>
    /\ UNCHANGED <<appVars, timerVars>>
    /\ UNCHANGED <<scVars, swapchain_rebuild, instance_cursor, current_img,
                   in_flight_fence, win_size, extent_defined, texVars, sc_calls, capVars>>

\* ------------------------------------------------- calls outside a frame
\* draw_sprites called while no frame is being recorded. The function holds no
\* test of the frame state: an empty batch returns, a non-empty one is written
\* at the cursor and its bind and draw commands are recorded into a command
\* buffer that is not in the recording state, which Vulkan leaves undefined
\* (ub: the driver records them anyway, or the process crashes)
DrawSpritesNoFrame(len, tex, ub) ==
    LET byte_count == len * InstSize IN
    /\ pc = "idle"
    /\ draws < MaxDraws
    /\ draws' = draws + 1
    /\ len <= MAX_SPRITES
    /\ instance_cursor + byte_count <= Capacity
    /\ ub = "crash" => (len > 0 /\ tex < Len(descriptor_sets))
    /\ IF IsEmpty(len)
       THEN /\ last' = Op("draw_sprites", len, "ok", "none")
            /\ UNCHANGED <<instance_cursor, pc, writes>>
       ELSE /\ writes' = Append(writes, [offset |-> instance_cursor,
                                         size |-> byte_count])
            /\ IF tex >= Len(descriptor_sets) \/ ub = "crash"
               THEN /\ last' = Op("draw_sprites", len, "panic", "none")
                    /\ pc' = "panicked"
                    /\ UNCHANGED instance_cursor
               ELSE /\ last' = Op("draw_sprites", len, "ok", "none")
                    /\ instance_cursor' =
                           CursorAdvanced(instance_cursor, byte_count)
                    /\ UNCHANGED pc
    /\ tex_calls' = <<>>
    /\ UNCHANGED <<appVars, timerVars>>
    /\ UNCHANGED <<scVars, frame_idx, swapchain_rebuild, current_img,
                   in_flight_fence, cmds, gpu_queue, win_size, extent_defined,
                   texVars, semVars, sc_calls, capVars>>

\* end_frame called while no frame is being recorded. The function holds no
\* test either: cmd_end_render_pass and end_command_buffer on a command buffer
\* that is not recording are undefined (ub: the driver goes on, or
\* end_command_buffer reports an error that is unwrapped, or the process
\* crashes); going on, the buffer is submitted behind a semaphore that no
\* acquire has signaled, the image is presented and frame_idx advances
EndFrameNoFrame(ub) ==
    LET fi == frame_idx
        img == current_img
    IN
    /\ pc = "idle"
    /\ last' = Op("end_frame", 0, IF ub = "crash" THEN "panic" ELSE "ok", "none")
    /\ draws' = 0
    /\ writes' = <<>>
    /\ IF img >= render_finished.n \/ ub = "crash"
       THEN /\ pc' = "panicked"
            /\ UNCHANGED <<cmds, gpu_queue, frame_idx, semVars>>
       ELSE /\ cmds' = [cmds EXCEPT ![fi] = "pending"]
            /\ gpu_queue' = Append(gpu_queue,
                   [slot |-> fi, reads |-> instance_cursor,
                    wait |-> WaitSemaphore(fi), img |-> img])
            /\ image_available' =
                   [image_available EXCEPT ![WaitSemaphore(fi)] =
                       IF @ = "signaled" THEN "waiting" ELSE @]
            /\ rf_state' = [rf_state EXCEPT ![img] = "pending"]
            /\ pc' = "idle"
            /\ frame_idx' = NextFrameIdx(fi)
    /\ tex_calls' = <<>>
    /\ UNCHANGED <<appVars, timerVars>>
    /\ UNCHANGED <<scVars, swapchain_rebuild, instance_cursor, current_img,
                   in_flight_fence, win_size, extent_defined, texVars, sc_calls,
                   capVars>>

\* -------------------------------------------------------------------- GPU
\* The queue completes the oldest submission and the present queued behind it,
\* and signals the submission's fence
GpuComplete ==
    /\ gpu_queue # <<>>
    /\ LET f == Head(gpu_queue) IN
       \* the submission starts once the semaphore it waits on is signaled
       /\ image_available[f.wait] = "waiting"
       /\ in_flight_fence' = [in_flight_fence EXCEPT ![f.slot] = TRUE]
       /\ cmds' = [cmds EXCEPT ![f.slot] = "executable"]
       /\ Executed(<<f>>)
    /\ gpu_queue' = Tail(gpu_queue)
    /\ last' = Op("gpu_complete", 0, "ok", "none")
    /\ tex_calls' = <<>>
    /\ UNCHANGED <<appVars, timerVars>>
    /\ UNCHANGED <<scVars, frame_idx, swapchain_rebuild, instance_cursor,
                   current_img, win_size, extent_defined, pc, draws, writes,
                   texVars, sc_calls, capVars>>


\* ------------------------------------------------------------------- Drop
Drop ==
    /\ pc \in {"idle", "panicked"}
    /\ DeviceWaitIdle
    /\ framebuffers' = Destroyed(framebuffers)
    /\ present_image_views' = Destroyed(present_image_views)
    /\ swapchain' = Destroyed(swapchain)
    /\ render_finished' = Destroyed(render_finished)
    /\ pc' = "dropped"
    /\ last' = Op("drop", 0, "ok", "none")
    /\ tex_calls' = <<>>
    /\ UNCHANGED <<appVars, timerVars>>
    /\ UNCHANGED <<surface_resolution, present_images, frameVars, texVars,
                   semVars, sc_calls, capVars, swapchain_rebuild, win_size,
                   extent_defined>>

\* ------------------------------------------------------------------ Timer
\* durations, in whole units
Presets == 0 .. MaxPreset
Dts == 0 .. MaxDt
TimerModes == {"Once", "Loop"}
\* enough to tell an elapsed time below a preset from one that reached it
ElapsedCap == MaxPreset + MaxDt

\* no Timer yet
TimerNone ==
    /\ timer = [preset |-> 0, remaining |-> 0, mode |-> "none"]
    /\ timer_elapsed = 0
    /\ timer_fired = 0
    /\ timer_last = [op |-> "none", dt |-> 0, result |-> FALSE]

\* Duration::saturating_sub
SaturatingSub(a, b) == IF b >= a THEN 0 ELSE a - b

\* (a tick that reloads the timer in either mode)
RemainingAtZeroReloaded(mode, preset) == preset

\* (a tick that leaves the timer at zero in either mode)
RemainingAtZeroKept(mode, preset) == 0

\* match self.mode { Once => stay at zero, Loop => self.remaining = self.preset }
RemainingAtZero(mode, preset) == IF mode = "Loop" THEN preset ELSE 0

\* Timer::tick: the timer after the call and what the call returns
Tick(t, dt) ==
    IF t.remaining = 0 THEN [timer |-> t, result |-> FALSE]
    ELSE IF SaturatingSub(t.remaining, dt) = 0
    THEN [timer |-> [t EXCEPT !.remaining = RemainingAtZero(t.mode, t.preset)],
          result |-> TRUE]
    ELSE [timer |-> [t EXCEPT !.remaining = SaturatingSub(t.remaining, dt)],
          result |-> FALSE]

\* Timer::finished
Finished(t) == t.remaining = 0

\* Timer::new
TimerNew(preset, mode) ==
    /\ timer.mode = "none"
    /\ timer' = [preset |-> preset, remaining |-> preset, mode |-> mode]
    /\ timer_elapsed' = 0
    /\ timer_fired' = 0
    /\ timer_last' = [op |-> "new", dt |-> 0, result |-> FALSE]
    /\ UNCHANGED <<vkVars, appVars>>

TimerTick(dt) ==
    /\ timer.mode # "none"
    /\ timer' = Tick(timer, dt).timer
    /\ timer_elapsed' = Min(timer_elapsed + dt, ElapsedCap)
    /\ timer_fired' = IF Tick(timer, dt).result
                      THEN Min(timer_fired + 1, 2) ELSE timer_fired
    /\ timer_last' = [op |-> "tick", dt |-> dt, result |-> Tick(timer, dt).result]
    /\ UNCHANGED <<vkVars, appVars>>

\* Timer::reset
TimerReset ==
    /\ timer.mode # "none"
    /\ timer' = [timer EXCEPT !.remaining = timer.preset]
    /\ timer_elapsed' = 0
    /\ timer_fired' = 0
    /\ timer_last' = [op |-> "reset", dt |-> 0, result |-> FALSE]
    /\ UNCHANGED <<vkVars, appVars>>

\* Timer::set: the new preset, then reset()
TimerSet(new_preset) ==
    /\ timer.mode # "none"
    /\ timer' = [timer EXCEPT !.preset = new_preset, !.remaining = new_preset]
    /\ timer_elapsed' = 0
    /\ timer_fired' = 0
    /\ timer_last' = [op |-> "set", dt |-> 0, result |-> FALSE]
    /\ UNCHANGED <<vkVars, appVars>>

\* A timer of any preset and mode, ticked, reset and set in any order
NextTimer ==
    \/ \E preset \in Presets, mode \in TimerModes : TimerNew(preset, mode)
    \/ \E dt \in Dts : TimerTick(dt)
    \/ TimerReset
    \/ \E new_preset \in Presets : TimerSet(new_preset)

\* -------------------------------------------------------------------- App
\* ------------------------------------------------------------ InputState
Contains(list, k) == \E i \in 1 .. Len(list) : list[i] = k

\* list.retain(|x| *x != k)
Retain(list, k) ==
    LET Keep(x) == x # k IN SelectSeq(list, Keep)

\* InputState::set_key_down
SetKeyDown(inp, k, down) ==
    IF down /\ ~Contains(inp.pressed, k)
    THEN [inp EXCEPT !.pressed = Append(@, k), !.just_pressed = Append(@, k)]
    ELSE IF ~down /\ Contains(inp.pressed, k)
    THEN [inp EXCEPT !.pressed = Retain(@, k), !.just_released = Append(@, k)]
    ELSE inp

\* (a begin_frame that clears nothing)
InputBeginFrameKeeping(inp) == inp

\* InputState::begin_frame
InputBeginFrame(inp) == [inp EXCEPT !.just_pressed = <<>>, !.just_released = <<>>]

\* the keys k for which InputState::just_pressed(k) holds
JustPressed(inp) == {k \in Keys : Contains(inp.just_pressed, k)}

\* WindowEvent::KeyboardInput
KeyboardInput(k, down) ==
    /\ app_pc = "running"
    /\ Len(input_state.just_pressed) + Len(input_state.just_released) < MaxKeyEvents
    /\ app_last' = "keyboard"
    /\ input_state' = SetKeyDown(input_state, k, down)
    /\ key_down' = [key_down EXCEPT ![k] = down]
    /\ unreported' = [unreported EXCEPT ![k] = @ \/ (down /\ ~key_down[k])]
    /\ calls' = <<>>
    /\ forwarded' = <<>>
    /\ scene_calls' = <<>>
    /\ UNCHANGED <<app_pc, scenes, scene_lookup, active_scene, cameras, next_id,
                   entities, lut, tex_slots, batches, metadata, seen>>
    /\ UNCHANGED vkVars
    /\ UNCHANGED timerVars

\* WindowEvent::CursorMoved
CursorMoved(pos) ==
    /\ app_pc = "running"
    /\ app_last' = "cursor_moved"
    /\ input_state' = [input_state EXCEPT !.mouse_pos = pos]
    /\ calls' = <<>>
    /\ forwarded' = <<>>
    /\ scene_calls' = <<>>
    /\ UNCHANGED <<app_pc, scenes, scene_lookup, active_scene, cameras, next_id,
                   entities, lut, tex_slots, batches, metadata, key_down,
                   unreported, seen>>
    /\ UNCHANGED vkVars
    /\ UNCHANGED timerVars

\* App::new: no window, no renderer, no scene
AppNew ==
    /\ app_pc = "setup"
    /\ app_last = "new"
    /\ scenes = <<>>
    /\ scene_lookup = <<>>
    /\ active_scene = NoScene
    /\ cameras = 0
    /\ next_id = 0
    /\ entities = <<>>
    /\ lut = <<>>
    /\ tex_slots = 0
    /\ forwarded = <<>>
    /\ metadata = <<>>
    /\ scene_calls = <<>>
    /\ input_state = [pressed |-> <<>>, just_pressed |-> <<>>,
                      just_released |-> <<>>, mouse_pos |-> 0]
    /\ key_down = [k \in Keys |-> FALSE]
    /\ unreported = [k \in Keys |-> FALSE]
    /\ seen = {}
    /\ batches = <<>>
    /\ calls = <<>>

\* scene_lookup.insert(TypeId::of::<S>(), key), lut.insert(tex_id, slot),
\* pool.entities.insert(id, s): the entry of k is v, the others are kept
Insert(map, k, v) == (k :> v) @@ map

\* (an add_scene that makes the scene it adds the active one)
ActiveAfterAddLatest(active, key) == key

\* if *self.active_scene == usize::MAX { self.active_scene = key; }
ActiveAfterAdd(active, key) == IF active = NoScene THEN key ELSE active

AddScene(S) ==
    LET key == Len(scenes) IN
    /\ app_pc = "setup"
    /\ Len(scenes) < MaxScenes
    /\ scene_lookup' = Insert(scene_lookup, S, key)
    /\ scenes' = Append(scenes, [type |-> S, must_start |-> TRUE])
    /\ active_scene' = ActiveAfterAdd(active_scene, key)
    /\ app_last' = "add_scene"
    /\ UNCHANGED <<app_pc, cameras, next_id, entities, lut, tex_slots, batches,
                   calls, forwarded, metadata, scene_calls, inputVars>>
    /\ UNCHANGED vkVars
    /\ UNCHANGED timerVars

SetStartScene(S) ==
    /\ app_pc = "setup"
    /\ app_last' = "set_start_scene"
    /\ IF S \in DOMAIN scene_lookup
       THEN /\ active_scene' = scene_lookup[S]
            /\ UNCHANGED app_pc
       ELSE \* panic!("set_start_scene::<S> called before add_scene::<S>")
            /\ app_pc' = "panicked"
            /\ UNCHANGED active_scene
    /\ UNCHANGED <<scenes, scene_lookup, cameras, next_id, entities, lut,
                   tex_slots, batches, calls, forwarded, metadata,
                   scene_calls, inputVars>>
    /\ UNCHANGED vkVars
    /\ UNCHANGED timerVars

\* Where VkBackend::init can fail: creating the instance, the surface, finding
\* a physical device with a queue family that does graphics and presents to
\* the surface, creating the device, the render pass, the swapchain, the
\* framebuffers, the pipeline
InitFailPoints ==
    {"none", "instance", "surface", "no_suitable_device", "device",
     "render_pass", "swapchain", "framebuffer", "pipeline"}

\* the failures init meets with expect or unwrap; the others leave with `?`
InitPanicPoints ==
    {"instance", "surface", "no_suitable_device", "device", "swapchain"}

\* How VkBackend::init ends when the step fails
InitResult(fail) ==
    IF fail = "none" THEN "ok"
    ELSE IF fail \in InitPanicPoints THEN "panic" ELSE "err"

\* ApplicationHandler::resumed: the window is created, then the renderer by
\* Renderer::new, which returns what VkBackend::init returns; resumed expects
\* it to be Ok
Resumed(fail) ==
    /\ app_pc = "setup"
    /\ app_pc' = IF InitResult(fail) = "ok" THEN "running" ELSE "panicked"
    /\ app_last' = "resumed"
    /\ calls' = <<[fn |-> "init", arg |-> fail, result |-> InitResult(fail)]>>
    /\ UNCHANGED <<scenes, scene_lookup, active_scene, cameras, next_id,
                   entities, lut, tex_slots, batches, metadata, inputVars>>
    /\ forwarded' = <<>>
    /\ scene_calls' = <<>>
    /\ UNCHANGED vkVars
    /\ UNCHANGED timerVars

\* The commands a scene leaves in Ctx.commands: the textures it asked to load,
\* the texture of each sprite it spawned, the cameras it spawned, the scene
\* type it asked to go to
NoCommands ==
    [loads |-> <<>>, spawns |-> <<>>, cameras |-> 0, switch |-> "none"]

CommandInputs ==
    {NoCommands,
     [loads |-> <<0>>, spawns |-> <<0>>, cameras |-> 1, switch |-> "none"],
     [loads |-> <<1>>, spawns |-> <<1>>, cameras |-> 0, switch |-> "none"],
     [loads |-> <<>>, spawns |-> <<0>>, cameras |-> 0, switch |-> "none"]}
        \cup {[loads |-> <<>>, spawns |-> <<>>, cameras |-> 0, switch |-> S] :
                 S \in SceneTypes}

\* The App and its renderer as one value, for the steps of a handler
AppState ==
    [scenes |-> scenes, active_scene |-> active_scene, cameras |-> cameras,
     next_id |-> next_id, entities |-> entities, lut |-> lut,
     tex_slots |-> tex_slots, metadata |-> metadata, calls |-> <<>>,
     trace |-> <<>>, panicked |-> FALSE]

Call(fn, arg) == [fn |-> fn, arg |-> arg]

\* entries of scene_calls
SceneCall(fn, key) == [fn |-> fn, scene |-> key, commands |-> NoCommands]
Applied(commands) == [fn |-> "apply", scene |-> NoScene, commands |-> commands]

\* img.dimensions() of the image at the path a TextureId was hashed from
ImageSize(tex) == [w |-> 16 * (tex + 1), h |-> 16]

\* if slot >= self.metadata.len() { self.metadata.resize(slot + 1, None) }
\* self.metadata[slot] = Some(TextureMeta { w, h })
SetMeta(meta, slot, size) ==
    [i \in 1 .. Max(Len(meta), slot + 1) |->
        IF i = slot + 1 THEN <<size>>
        ELSE IF i <= Len(meta) THEN meta[i] ELSE <<>>]

\* Renderer::texture_meta: self.metadata.get(tex.0 as usize).and_then(|m| *m)
TextureMeta(meta, tex) ==
    IF tex < Len(meta) THEN meta[tex + 1] ELSE <<>>

\* Renderer::load_texture_sync, its result dropped by apply_commands.
\* outcome: "io_error" (image::open fails, nothing is created), "panic"
\* (create_texture returns an error, which is expect-ed), "ok"
LoadTextureSync(st, tex, outcome) ==
    IF st.panicked \/ outcome = "io_error" THEN st
    ELSE IF outcome = "panic"
    THEN [st EXCEPT !.calls = Append(@, Call("create_texture", tex)),
                    !.panicked = TRUE]
    ELSE [st EXCEPT !.calls = Append(@, Call("create_texture", tex)),
                    !.lut = Insert(@, tex, st.tex_slots),
                    !.tex_slots = @ + 1,
                    !.metadata = SetMeta(@, st.tex_slots, ImageSize(tex))]

RECURSIVE LoadAll(_, _, _)
LoadAll(st, loads, outcome) ==
    IF loads = <<>> THEN st
    ELSE LoadAll(LoadTextureSync(st, Head(loads), outcome), Tail(loads), outcome)

\* ctx.spawn_sprite takes the id from pool.next_id; apply_commands inserts
RECURSIVE SpawnAll(_, _)
SpawnAll(st, spawns) ==
    IF spawns = <<>> THEN st
    ELSE SpawnAll([st EXCEPT !.entities = Insert(@, st.next_id, Head(spawns)),
                             !.next_id = @ + 1],
                  Tail(spawns))

\* (a scene switch that starts the entity ids again with the emptied pool)
SceneSwitchResettingIds(st, target) ==
    IF target = "none" \/ target \notin DOMAIN scene_lookup
    THEN st
    ELSE LET key == scene_lookup[target] IN
         [st EXCEPT !.entities = <<>>,
                    !.next_id = 0,
                    !.scenes[key + 1].must_start = TRUE,
                    !.active_scene = key,
                    !.trace = Append(@, SceneCall("activate", key))]

\* if let Some(target_type) = cmds.scene_switch.take() { .. }
SceneSwitch(st, target) ==
    IF target = "none" \/ target \notin DOMAIN scene_lookup
    THEN st     \* nothing asked, or warn!("... not registered")
    ELSE LET key == scene_lookup[target] IN
         [st EXCEPT !.entities = <<>>,
                    !.scenes[key + 1].must_start = TRUE,
                    !.active_scene = key,
                    !.trace = Append(@, SceneCall("activate", key))]

\* (an apply_commands that switches the scene before it inserts the sprites)
ApplyCommandsSwitchFirst(st, commands, outcome) ==
    LET loaded == LoadAll([st EXCEPT !.trace = Append(@, Applied(commands))],
                          commands.loads, outcome)
    IN
    IF loaded.panicked THEN loaded
    ELSE [SpawnAll(SceneSwitch(loaded, commands.switch), commands.spawns)
             EXCEPT !.cameras = @ + commands.cameras]

\* App::apply_commands
ApplyCommands(st, commands, outcome) ==
    LET loaded == LoadAll([st EXCEPT !.trace = Append(@, Applied(commands))],
                          commands.loads, outcome)
    IN
    IF loaded.panicked THEN loaded
    ELSE SceneSwitch([SpawnAll(loaded, commands.spawns)
                         EXCEPT !.cameras = @ + commands.cameras],
                     commands.switch)

\* The orders in which a HashMap with these keys can be iterated
Orders(keys) ==
    {o \in [1 .. Cardinality(keys) -> keys] :
        \A i, j \in 1 .. Cardinality(keys) : o[i] = o[j] => i = j}

\* match self.batches.iter_mut().find(|b| b.tex == s.tex): push the instance
\* on the first batch of the texture, or push a new batch holding it
AddInstance(bs, id, tex) ==
    IF \E i \in 1 .. Len(bs) : bs[i].tex = tex
    THEN LET i == CHOOSE i \in 1 .. Len(bs) :
                      /\ bs[i].tex = tex
                      /\ \A j \in 1 .. i - 1 : bs[j].tex # tex
         IN  [bs EXCEPT ![i].instances = Append(@, id)]
    ELSE Append(bs, [tex |-> tex, instances |-> <<id>>])

RECURSIVE AddInstances(_, _, _)
AddInstances(bs, ents, order) ==
    IF order = <<>> THEN bs
    ELSE AddInstances(AddInstance(bs, Head(order), ents[Head(order)]),
                      ents, Tail(order))

\* (a rebuild_batches that keeps the batches of the frame before)
RebuildBatchesKeeping(old, ents, order) == AddInstances(old, ents, order)

\* App::rebuild_batches: self.batches.clear(), then one instance per entity
\* in the iteration order of pool.entities
RebuildBatches(old, ents, order) == AddInstances(<<>>, ents, order)

\* for cam in &self.cameras { bind_camera(cam); for batch in &self.batches {
\* draw_sprites(batch) } }
RECURSIVE DrawCalls(_, _)
DrawCalls(cams, bs) ==
    IF cams = 0 THEN <<>>
    ELSE <<Call("bind_camera", 0)>>
         \o [i \in 1 .. Len(bs) |-> Call("draw_sprites", bs[i].tex)]
         \o DrawCalls(cams - 1, bs)

\* (a Renderer::draw_sprites that passes every batch on)
RendererDrawSpritesUnchecked(l, tex) ==
    <<[tex |-> tex, idx |-> IF tex \in DOMAIN l THEN l[tex] ELSE 0]>>

\* Renderer::draw_sprites: the backend is called with the slot the lut holds
\* for batch.tex, or not at all
RendererDrawSprites(l, tex) ==
    IF tex \in DOMAIN l THEN <<[tex |-> tex, idx |-> l[tex]]>> ELSE <<>>

RECURSIVE BatchDraws(_, _)
BatchDraws(bs, l) ==
    IF bs = <<>> THEN <<>>
    ELSE RendererDrawSprites(l, Head(bs).tex) \o BatchDraws(Tail(bs), l)

\* the backend draw calls of the camera loop of RedrawRequested
RECURSIVE ForwardedDraws(_, _, _)
ForwardedDraws(cams, bs, l) ==
    IF cams = 0 THEN <<>>
    ELSE BatchDraws(bs, l) \o ForwardedDraws(cams - 1, bs, l)

\* (a frame whose texture loads are made after begin_frame)
RedrawCallsLoadingInFrame(loads, cams, bs) ==
    <<Call("begin_frame", 0)>> \o loads \o DrawCalls(cams, bs)
        \o <<Call("end_frame", 0)>>

\* apply_commands (twice), then begin_frame, the draws, end_frame
RedrawCalls(loads, cams, bs) ==
    loads \o <<Call("begin_frame", 0)>> \o DrawCalls(cams, bs)
        \o <<Call("end_frame", 0)>>

\* WindowEvent::RedrawRequested. start_cmds and update_cmds are what the
\* scene's start and update leave in their Commands, o1 and o2 the outcome of
\* the texture loads of each
RedrawRequested(start_cmds, update_cmds, o1, o2) ==
    /\ app_pc = "running"
    /\ app_last' = "redraw"
    /\ IF active_scene = NoScene
       THEN /\ start_cmds = NoCommands /\ update_cmds = NoCommands
            /\ o1 = "ok" /\ o2 = "ok"
            /\ calls' = RedrawCalls(<<>>, 0, <<>>)
            /\ forwarded' = <<>>
            /\ scene_calls' = <<>>
            \* return, before self.input_state.begin_frame()
            /\ UNCHANGED <<app_pc, scenes, scene_lookup, active_scene, cameras,
                           next_id, entities, lut, tex_slots, batches,
                           metadata, inputVars>>
       ELSE LET must_start == scenes[active_scene + 1].must_start
                s1 == IF must_start
                      THEN ApplyCommands(
                               [AppState EXCEPT
                                   !.scenes[active_scene + 1].must_start = FALSE,
                                   !.trace = <<SceneCall("start", active_scene)>>],
                               start_cmds, o1)
                      ELSE AppState
                s2 == IF s1.panicked THEN s1
                      ELSE ApplyCommands(
                               [s1 EXCEPT !.trace =
                                   Append(@, SceneCall("update", s1.active_scene))],
                               update_cmds, o2)
            IN  /\ ~must_start => (start_cmds = NoCommands /\ o1 = "ok")
                /\ start_cmds.loads = <<>> => o1 = "ok"
                /\ update_cmds.loads = <<>> => o2 = "ok"
                /\ s2.next_id <= MaxEntities
                /\ s2.cameras \in CameraCounts
                /\ s2.tex_slots \in SlotCounts
                /\ scenes' = s2.scenes
                /\ active_scene' = s2.active_scene
                /\ cameras' = s2.cameras
                /\ next_id' = s2.next_id
                /\ entities' = s2.entities
                /\ lut' = s2.lut
                /\ tex_slots' = s2.tex_slots
                /\ metadata' = s2.metadata
                /\ scene_calls' = s2.trace
                /\ IF s1.panicked
                   THEN UNCHANGED <<seen, unreported>>
                   ELSE \* the update has read ctx.input
                        /\ seen' = JustPressed(input_state)
                        /\ unreported' = [k \in Keys |-> FALSE]
                /\ UNCHANGED key_down
                /\ input_state' = IF s2.panicked THEN input_state
                                  ELSE InputBeginFrame(input_state)
                /\ UNCHANGED scene_lookup
                /\ IF s2.panicked
                   THEN /\ app_pc' = "panicked"
                        /\ calls' = s2.calls
                        /\ forwarded' = <<>>
                        /\ UNCHANGED batches
                   ELSE /\ \E order \in Orders(DOMAIN s2.entities) :
                              batches' = RebuildBatches(batches, s2.entities,
                                                        order)
                        /\ calls' = RedrawCalls(s2.calls, s2.cameras, batches')
                        /\ forwarded' = ForwardedDraws(s2.cameras, batches',
                                                     s2.lut)
                        /\ UNCHANGED app_pc
    /\ UNCHANGED vkVars
    /\ UNCHANGED timerVars

\* WindowEvent::Resized: the cameras are updated and the renderer is told
Resized ==
    /\ app_pc = "running"
    /\ app_last' = "resized"
    /\ calls' = <<Call("handle_resize", 0)>>
    /\ UNCHANGED <<app_pc, scenes, scene_lookup, active_scene, cameras, next_id,
                   entities, lut, tex_slots, batches, metadata, inputVars>>
    /\ forwarded' = <<>>
    /\ scene_calls' = <<>>
    /\ UNCHANGED vkVars
    /\ UNCHANGED timerVars

\* ------------------------------------------------------------------- init
\* desired_image_count of init: min + 1, or max when the surface caps it lower
DesiredImageCountInit(caps) ==
    IF caps.max > 0 /\ caps.min + 1 > caps.max THEN caps.max ELSE caps.min + 1

\* The surface's image count limits change (another display, another mode)
SurfaceChange(caps) ==
    /\ pc = "idle"
    /\ surface_caps' = caps
    /\ last' = Op("surface_change", 0, "ok", "none")
    /\ tex_calls' = <<>>
    /\ UNCHANGED <<appVars, timerVars>>
    /\ UNCHANGED <<scVars, frameVars, texVars, semVars, sc_calls,
                   desired_image_count, swapchain_rebuild, win_size,
                   extent_defined, pc>>

\* The backend that init returns for a surface with one of the given limits
\* (an init that creates the in-flight fences unsignaled)
FenceCreateUnsignaled == FALSE

\* create_fence(FenceCreateInfo::default().flags(FenceCreateFlags::SIGNALED))
FenceCreateSignaled == TRUE

InitWith(limits) ==
    /\ surface_caps \in limits
    /\ desired_image_count = DesiredImageCountInit(surface_caps)
    /\ frame_idx = 0
    /\ swapchain_rebuild = FALSE
    /\ extent_defined \in BOOLEAN
    /\ win_size = [width |-> 800, height |-> 600]
    /\ surface_resolution = win_size
    /\ instance_cursor = 0
    /\ current_img = 0
    /\ \E n \in ImageCounts :
          /\ swapchain = Vec(0, n, TRUE)
          /\ present_images = [gen |-> 0, n |-> n]
          /\ present_image_views = Vec(0, n, TRUE)
          /\ render_finished = Vec(0, n, TRUE)
          /\ framebuffers = Vec(0, n, TRUE)
    /\ in_flight_fence = [s \in Slots |-> FenceCreateSignaled]
    /\ cmds = [s \in Slots |-> "initial"]
    /\ gpu_queue = <<>>
    /\ pc = "idle"
    /\ draws = 0
    /\ writes = <<>>
    /\ images = <<>>
    /\ image_mem = <<>>
    /\ image_views = <<>>
    /\ samplers = <<>>
    /\ descriptor_sets = <<>>
    /\ tex_allocs = 0
    /\ issued = <<>>
    /\ image_available = [s \in Slots |-> "unsignaled"]
    /\ rf_state = [i \in ImageIndices |-> "unsignaled"]
    /\ sc_calls = <<>>
    /\ tex_calls = <<>>
    /\ last = Op("init", 0, "ok", "none")
    /\ AppNew
    /\ TimerNone

\* A surface that asks for two images at least and sets no maximum
Init == InitWith({[min |-> 2, max |-> 0]})

\* The whole system: every event, every outcome of every driver call
Next ==
    \/ \E size \in Extents : HandleResize(size)
    \/ \E fail \in FailPoints, n \in ImageCounts, acq \in AcquireResults,
          idx \in ImageIndices, ub \in {"proceed", "crash"} :
          BeginFrame(fail, n, acq, idx, ub)
    \/ \E len \in BatchLens, tex \in TexIds, ub \in {"proceed", "crash"} :
          DrawSprites(len, tex, ub)
    \/ \E pres \in PresentResults : EndFrame(pres)
    \/ \E t \in TextureInputs, overflow_checks \in BOOLEAN, fail \in TexFailPoints :
          CreateTexture(t.width, t.height, t.len, overflow_checks, fail)
    \/ GpuComplete
    \/ Drop

SpecAll == Init /\ [][Next]_vars

\* The frame ring and the instance buffer: frames that draw with the textures
\* loaded, with every result of acquire and present, over a swapchain whose
\* rebuilds succeed
NextFrames ==
    \/ \E size \in Extents : HandleResize(size)
    \/ \E acq \in AcquireResults, idx \in ImageIndices :
          BeginFrame("none", swapchain.n, acq, idx, "proceed")
    \/ \E len \in BatchLens, ub \in {"proceed", "crash"} : DrawSprites(len, 0, ub)
    \/ /\ Len(images) < MaxFrameTextures
       /\ CreateTexture(1, 1, 4, FALSE, "none")
    \/ \E pres \in PresentResults : EndFrame(pres)
    \/ GpuComplete
    \/ Drop

Spec == Init /\ [][NextFrames]_vars

\* The swapchain lifecycle: rebuilds that fail at any step and keep the image
\* count, frames that draw nothing and whose acquire and present succeed
NextSwapchain ==
    \/ \E size \in Extents : HandleResize(size)
    \/ \E fail \in FailPoints, idx \in ImageIndices, ub \in {"proceed", "crash"} :
          BeginFrame(fail, swapchain.n, "ok", idx, ub)
    \/ EndFrame("ok")
    \/ GpuComplete
    \/ Drop

SpecSwapchain == Init /\ [][NextSwapchain]_vars

\* The frame loop as the application drives it, begin_frame, draws, end_frame,
\* with resizes between frames; acquire and present succeed, and the queue
\* goes on executing what was submitted to it
NextFrameLoop ==
    \/ HandleResize([width |-> 1024, height |-> 768])
    \/ HandleResize([width |-> 800, height |-> 600])
    \/ \E idx \in ImageIndices :
          BeginFrame("none", swapchain.n, "ok", idx, "proceed")
    \/ \E len \in {0, 1} : DrawSprites(len, 0, "proceed")
    \/ /\ Len(images) < MaxFrameTextures
       /\ CreateTexture(1, 1, 4, FALSE, "none")
    \/ EndFrame("ok")
    \/ GpuComplete

SpecFrameLoop == Init /\ [][NextFrameLoop]_vars /\ WF_vars(GpuComplete)

\* Texture loading between frames: create_texture calls with every input,
\* and with a valid input failing at every step, frames that draw one-instance batches with any texture id,
\* a resize to one other size and the rebuild that follows it
NextTextures ==
    \/ /\ tex_allocs < MaxTexAllocs
       /\ \/ \E t \in TextureInputs, overflow_checks \in BOOLEAN :
                CreateTexture(t.width, t.height, t.len, overflow_checks, "none")
          \/ \E fail \in TexFailPoints : CreateTexture(1, 1, 4, FALSE, fail)
    \/ HandleResize([width |-> 1024, height |-> 768])
    \/ \E idx \in 0 .. 1 : BeginFrame("none", swapchain.n, "ok", idx, "proceed")
    \/ \E tex \in TexIds : DrawSprites(1, tex, "proceed")
    \/ EndFrame("ok")
    \/ GpuComplete
    \/ Drop

\* Callers that do not keep to begin_frame, draw_sprites*, end_frame: frames
\* in order mixed with draw_sprites and end_frame calls made outside a frame
NextSequencing ==
    \/ \E idx \in 0 .. 1 : BeginFrame("none", swapchain.n, "ok", idx, "proceed")
    \/ DrawSprites(1, 0, "proceed")
    \/ /\ Len(images) < MaxFrameTextures
       /\ CreateTexture(1, 1, 4, FALSE, "none")
    \/ EndFrame("ok")
    \/ \E len \in {0, 1}, ub \in {"proceed", "crash"} :
          DrawSpritesNoFrame(len, 0, ub)
    \/ /\ gpu_queue = <<>>
       /\ \E ub \in {"proceed", "crash"} : EndFrameNoFrame(ub)
    \/ GpuComplete
    \/ Drop

SpecSequencing == Init /\ [][NextSequencing]_vars

SpecTextures == Init /\ [][NextTextures]_vars

\* one backend under the App
InitApp == Init /\ extent_defined /\ swapchain.n = 3

\* command sets that ask for a scene switch while they spawn a sprite and a
\* camera, and ones that only spawn
SceneCommandInputs ==
    {NoCommands,
     [loads |-> <<>>, spawns |-> <<0>>, cameras |-> 0, switch |-> "none"]}
        \cup {[loads |-> <<>>, spawns |-> <<1>>, cameras |-> 1, switch |-> S] :
                 S \in SceneTypes}

\* Scene switching: scenes of different types, redraws whose start and update
\* spawn and ask for a switch to a scene type, registered or not
NextScenes ==
    \/ \E S \in SceneTypes : S \notin DOMAIN scene_lookup /\ AddScene(S)
    \/ Resumed("none")
    \/ \E start_cmds, update_cmds \in SceneCommandInputs :
          RedrawRequested(start_cmds, update_cmds, "ok", "ok")

SpecScenes == InitApp /\ [][NextScenes]_vars

\* Input: one scene, the window resumed, then keyboard and cursor events
\* between redraws whose scene leaves no commands
NextInput ==
    \/ AddScene("A")
    \/ Resumed("none")
    \/ \E k \in Keys, down \in BOOLEAN : KeyboardInput(k, down)
    \/ \E pos \in MousePositions : CursorMoved(pos)
    \/ RedrawRequested(NoCommands, NoCommands, "ok", "ok")

SpecInput == InitApp /\ [][NextInput]_vars

SpecTimer == Init /\ [][NextTimer]_vars

\* Setting the App up: scenes of any type registered in any order, a type more
\* than once too, start scenes chosen, then the window resumed
NextSetup ==
    \/ \E S \in SceneTypes : AddScene(S)
    \/ \E S \in SceneTypes : SetStartScene(S)
    \/ \E fail \in InitFailPoints : Resumed(fail)

SpecSetup == InitApp /\ [][NextSetup]_vars

\* The application: scenes of different types registered, the window resumed,
\* then redraws whose scenes leave any of the commands, and resizes
NextApp ==
    \/ \E S \in SceneTypes : S \notin DOMAIN scene_lookup /\ AddScene(S)
    \/ \E S \in SceneTypes : SetStartScene(S)
    \/ \E fail \in InitFailPoints : Resumed(fail)
    \/ \E start_cmds, update_cmds \in CommandInputs,
          o1, o2 \in {"ok", "io_error", "panic"} :
          RedrawRequested(start_cmds, update_cmds, o1, o2)
    \/ Resized

SpecApp == InitApp /\ [][NextApp]_vars

\* Texture loading alone: runs of create_texture calls that succeed or fail
\* at any step
NextTextureErrors ==
    \/ /\ tex_allocs < MaxTexAllocs + 2
       /\ \E t \in TextureInputs, overflow_checks \in BOOLEAN,
             fail \in TexFailPoints :
             CreateTexture(t.width, t.height, t.len, overflow_checks, fail)
    \/ Drop

SpecTextureErrors == Init /\ [][NextTextureErrors]_vars

\* Filling the texture arrays: create_texture calls that succeed, up to the
\* limit, and the call after it
NextTextureLimit ==
    \/ \E t \in {x \in TextureInputs : x.len > 0} :
          CreateTexture(t.width, t.height, t.len, FALSE, "none")
    \/ Drop

SpecTextureLimit == Init /\ [][NextTextureLimit]_vars

\* The image count asked for: surfaces with every limit, limits that change,
\* resizes and the rebuilds that follow them
NextImageCount ==
    \/ \E caps \in ImageCountCaps : SurfaceChange(caps)
    \/ \E size \in Extents : HandleResize(size)
    \/ \E fail \in {"none", "query"}, idx \in 0 .. 1 :
          BeginFrame(fail, swapchain.n, "ok", idx, "proceed")
    \/ EndFrame("ok")
    \/ GpuComplete
    \/ Drop

SpecImageCount == InitWith(ImageCountCaps) /\ [][NextImageCount]_vars

\* ================================================================ claims

InFlight(s) == \E i \in 1 .. Len(gpu_queue) : gpu_queue[i].slot = s

\* C1: whenever begin_frame resets and starts re-recording a slot's command
\* buffer, that slot's fence was signaled and no submission of that slot is
\* still executing on the GPU.
C1_FenceBeforeReset ==
    [][\A s \in Slots :
          (cmds'[s] = "recording" /\ cmds[s] # "recording")
              => /\ in_flight_fence[s]
                 /\ ~InFlight(s)
                 /\ cmds[s] # "pending"]_vars

\* C1 witness: slot 0 is being re-recorded after its earlier frame went through
\* the GPU, while the frame of slot 1 is still in flight.
C1_Witness ==
    /\ pc = "frame"
    /\ frame_idx = 0
    /\ cmds[0] = "recording"
    /\ Len(gpu_queue) = 1
    /\ gpu_queue[1].slot = 1

BeginFrameEnabled ==
    ENABLED (\E fail \in FailPoints, n \in ImageCounts, acq \in AcquireResults,
                idx \in ImageIndices, ub \in {"proceed", "crash"} :
                BeginFrame(fail, n, acq, idx, ub))

\* C2: at most MAX_FRAMES_IN_FLIGHT frames are submitted and not completed; with
\* that many in flight the next begin_frame cannot proceed, the fence it waits
\* on is unsignaled and belongs to the oldest frame in flight (slot 0 for the
\* third frame).
C2_BackPressure ==
    /\ Len(gpu_queue) <= MAX_FRAMES_IN_FLIGHT
    /\ (pc = "idle" /\ Len(gpu_queue) = MAX_FRAMES_IN_FLIGHT)
           => /\ ~in_flight_fence[frame_idx]
              /\ Head(gpu_queue).slot = frame_idx
              /\ ~BeginFrameEnabled

\* C2 witness: MAX_FRAMES_IN_FLIGHT frames submitted, none completed, and the
\* application is about to begin the next one on slot 0.
C2_Witness ==
    /\ pc = "idle"
    /\ Len(gpu_queue) = MAX_FRAMES_IN_FLIGHT
    /\ frame_idx = 0

\* C3 (as claimed): a draw_sprites call never writes a byte range of the
\* instance buffer that the draw commands of a frame still in flight read.
\* The call wrote [instance_cursor - len * InstSize, instance_cursor); a frame
\* in flight reads [0, reads).
C3_NoInstanceBufferRace ==
    (last.op = "draw_sprites" /\ last.result = "ok" /\ last.len > 0)
        => \A i \in 1 .. Len(gpu_queue) :
               ~(instance_cursor - last.len * InstSize < gpu_queue[i].reads)

\* C4 (as claimed): the cursor never passes the capacity of the instance
\* buffer, and a draw_sprites call naming an existing texture fails only
\* when it would pass it.
C4_CapacityEnforced ==
    /\ instance_cursor <= Capacity
    /\ (last.op = "draw_sprites" /\ last.result = "panic"
           /\ descriptor_sets # <<>>)
           => instance_cursor + last.len * InstSize > Capacity

swapchainObjects ==
    <<swapchain, present_image_views, render_finished, framebuffers>>

\* C5: the swapchain, its image views, framebuffers and render-finished
\* semaphores change (are destroyed, are replaced) only in a step that starts
\* with no frame in flight, and only begin_frame and Drop make such a step.
C5_DestroyOnlyWhenIdle ==
    [][swapchainObjects' # swapchainObjects
          => /\ gpu_queue = <<>>
             /\ \A s \in Slots : cmds[s] # "pending"
             /\ last'.op \in {"begin_frame", "drop"}]_vars

\* C5 witness: a begin_frame has rebuilt the swapchain after a frame had been
\* submitted and completed.
C5_Witness ==
    /\ last.op = "begin_frame"
    /\ last.rebuilt = "ok"
    /\ \E s \in Slots : cmds[s] = "executable"

\* C6 (as claimed, for a rebuild that succeeds): after handle_resize with a
\* size other than the current resolution and the begin_frame that follows it,
\* the resolution is that size when the surface reports the sentinel and the
\* surface's extent otherwise, and the framebuffers and views are new ones.
C6_ResizeRoundTrip ==
    [][(/\ last.op = "handle_resize"
        /\ win_size # surface_resolution
        /\ last'.op = "begin_frame"
        /\ last'.rebuilt = "ok")
          => /\ surface_resolution' =
                    (IF extent_defined THEN CurrentExtent ELSE win_size)
             /\ framebuffers'.live /\ framebuffers' # framebuffers
             /\ present_image_views'.live
             /\ present_image_views' # present_image_views]_vars

\* C7: handle_resize with the size already in effect changes no backend state,
\* the pending-rebuild flag included.
C7_SameSizeNoOp ==
    [][(last'.op = "handle_resize" /\ win_size' = surface_resolution)
          => UNCHANGED backendVars]_vars

\* C7 witness: handle_resize was called with the current resolution.
C7_Witness ==
    /\ last.op = "handle_resize"
    /\ win_size = surface_resolution
    /\ ~swapchain_rebuild

\* C8: handle_resize with another size sets the flag and touches no swapchain
\* object; swapchain objects are rebuilt only by a begin_frame that found the
\* flag set, from outside a frame; a begin_frame rebuilds exactly when the flag
\* is set and leaves it clear.
C8_DeferredRebuild ==
    [][/\ last'.op = "handle_resize"
           => /\ UNCHANGED scVars
              /\ (win_size' # surface_resolution => swapchain_rebuild')
       /\ (scVars' # scVars /\ last'.op # "drop")
           => (last'.op = "begin_frame" /\ swapchain_rebuild /\ pc = "idle")
       /\ last'.op = "begin_frame"
           => /\ ~swapchain_rebuild'
              /\ (last'.rebuilt # "none") <=> swapchain_rebuild
       /\ pc = "frame" => UNCHANGED scVars]_vars

\* C8 witness: a begin_frame has rebuilt the swapchain and cleared the flag.
C8_Witness ==
    /\ last.op = "begin_frame"
    /\ last.rebuilt = "ok"
    /\ ~swapchain_rebuild
    /\ pc = "frame"

\* C9 (as claimed): after a begin_frame whose rebuild failed, the rebuild is
\* still pending.
C9_FailedRebuildRetried ==
    (last.op = "begin_frame" /\ last.rebuilt = "failed") => swapchain_rebuild

\* C10 (as claimed): an out-of-date or suboptimal acquire or present is not
\* fatal and sets the pending-rebuild flag.
C10_OutOfDateHandled ==
    (/\ last.op \in {"begin_frame", "end_frame"}
     /\ last.result \in {"suboptimal", "out_of_date"})
        => (pc # "panicked" /\ swapchain_rebuild)

\* The states of a frame slot (spec 4.3), read off its command buffer: Idle is
\* a buffer never recorded or whose submission has completed.
SlotState(s) ==
    CASE cmds[s] \in {"initial", "executable"} -> "Idle"
      [] cmds[s] = "recording" -> "Recording"
      [] cmds[s] = "pending" -> "Submitted"

\* C11: a frame slot changes state only Idle -> Recording in begin_frame,
\* Recording -> Submitted in end_frame, and Submitted -> Idle when the GPU
\* completes its submission and signals its fence (never Submitted ->
\* Recording); at most one slot is Recording at any time.
C11_SlotStateMachine ==
    [][/\ \A s \in Slots :
            SlotState(s)' # SlotState(s)
                => \/ /\ SlotState(s) = "Idle" /\ SlotState(s)' = "Recording"
                      /\ last'.op = "begin_frame"
                   \/ /\ SlotState(s) = "Recording" /\ SlotState(s)' = "Submitted"
                      /\ last'.op = "end_frame"
                   \/ /\ SlotState(s) = "Submitted" /\ SlotState(s)' = "Idle"
                      /\ last'.op = "gpu_complete"
                      /\ in_flight_fence'[s]
       /\ Cardinality({s \in Slots : SlotState(s)' = "Recording"}) <= 1]_vars

\* C11 witness: slot 0 has gone round the whole cycle and is Idle again, its
\* submission completed by the GPU, while slot 1 is Recording.
C11_Witness ==
    /\ last.op = "gpu_complete"
    /\ SlotState(0) = "Idle"
    /\ in_flight_fence[0]
    /\ SlotState(1) = "Recording"
    /\ gpu_queue = <<>>


\* C12: frame_idx is a slot index; only end_frame changes it, to
\* (frame_idx + 1) mod MAX_FRAMES_IN_FLIGHT; begin_frame (rebuilding the
\* swapchain or not), draw_sprites, handle_resize and create_texture leave it
\* alone; the slot end_frame submits is the slot begin_frame put into recording.
C12_FrameIdx ==
    [][/\ frame_idx \in Slots /\ frame_idx' \in Slots
       /\ last.op = "init" => frame_idx = 0
       /\ frame_idx' # frame_idx => last'.op = "end_frame"
       /\ (last'.op = "end_frame" /\ pc' = "idle")
              => frame_idx' = (frame_idx + 1) % MAX_FRAMES_IN_FLIGHT
       /\ last'.op \in {"begin_frame", "draw_sprites", "handle_resize",
                        "create_texture"}
              => frame_idx' = frame_idx
       /\ (last'.op = "end_frame" /\ gpu_queue' # gpu_queue)
              => /\ gpu_queue'[Len(gpu_queue')].slot = frame_idx
                 /\ cmds[frame_idx] = "recording"]_vars

\* C12 witness: the second frame has ended and frame_idx is back at 0, after a
\* texture was created and the swapchain rebuilt for another size.
C12_Witness ==
    /\ last.op = "end_frame"
    /\ frame_idx = 0
    /\ Len(images) > 0
    /\ surface_resolution.width = 1024


\* C13: begin_frame's acquire signals the slot's image-acquired semaphore, which
\* was unsignaled; end_frame's submission waits on that semaphore (the only one
\* signaled and not yet waited on), signals render_finished[current_img], which
\* had no signal outstanding, and the slot's fence, and its present waits on
\* that render_finished; when the queue executes them each wait consumes the
\* one signal made for it. No other step touches a semaphore, except a rebuild
\* that replaces the render_finished semaphores.
C13_SemaphorePairing ==
    [][/\ (last'.op = "begin_frame" /\ cmds'[frame_idx] = "recording")
              => /\ image_available[frame_idx] = "unsignaled"
                 /\ image_available' =
                        [image_available EXCEPT ![frame_idx] = "signaled"]
       /\ last'.op = "end_frame" /\ gpu_queue' # gpu_queue
              => LET f == gpu_queue'[Len(gpu_queue')] IN
                 /\ f.wait = frame_idx /\ f.slot = frame_idx
                 /\ \A s \in Slots :
                        image_available[s] = "signaled" <=> s = f.wait
                 /\ image_available' =
                        [image_available EXCEPT ![f.wait] = "waiting"]
                 /\ f.img = current_img
                 /\ rf_state[f.img] = "unsignaled"
                 /\ rf_state' = [rf_state EXCEPT ![f.img] = "pending"]
       /\ \A i \in 1 .. Len(gpu_queue) :
              LET f == gpu_queue[i] IN
              /\ image_available[f.wait] = "waiting"
              /\ rf_state[f.img] = "pending"
              /\ \A j \in 1 .. Len(gpu_queue) :
                     (j # i) => (gpu_queue[j].wait # f.wait
                                 /\ gpu_queue[j].img # f.img)
              /\ (\A j \in 1 .. Len(gpu_queue') : gpu_queue'[j] # f)
                     => /\ image_available'[f.wait] = "unsignaled"
                        /\ rf_state'[f.img] = "unsignaled"
                        /\ in_flight_fence'[f.slot]
       /\ semVars' # semVars
              => \/ last'.op \in {"begin_frame", "end_frame", "gpu_complete"}
                 \/ last'.op = "create_texture" /\ gpu_queue # <<>>]_vars

\* C13 witness: the third frame has been submitted on slot 0 while the second is
\* in flight: the semaphore of slot 0 has been signaled, waited on and signaled
\* again.
C13_Witness ==
    /\ last.op = "end_frame"
    /\ pc = "idle"
    /\ Len(gpu_queue) = 2
    /\ gpu_queue[1].slot = 1
    /\ gpu_queue[2].slot = 0
    /\ image_available[0] = "waiting"
    /\ rf_state[gpu_queue[2].img] = "pending"


\* In the calls of the last create_swapchain, x comes before every y
CalledBefore(x, y) ==
    \A j \in 1 .. Len(sc_calls) :
        sc_calls[j] = y => \E i \in 1 .. (j - 1) : sc_calls[i] = x

\* C14: a rebuild queries the surface first, destroys the old framebuffers,
\* image views and render-finished semaphores, then the old swapchain, only
\* then creates the new swapchain, and after it the views, the semaphores and
\* the framebuffers, in that order. A rebuild that fails at the query has
\* destroyed nothing; one that fails at the create call has already destroyed
\* every old object; a rebuild that succeeds has made every call.
C14_RebuildOrder ==
    [][(last'.op = "begin_frame" /\ last'.rebuilt # "none")
          => /\ sc_calls'[1] = "query"
             /\ \A i, j \in 1 .. Len(sc_calls') :
                    sc_calls'[i] = sc_calls'[j] => i = j
             /\ \A d \in {"query", "destroy_framebuffers", "destroy_image_views",
                          "destroy_semaphores"} :
                    CalledBefore(d, "destroy_swapchain")'
             /\ CalledBefore("destroy_swapchain", "create_swapchain")'
             /\ CalledBefore("create_swapchain", "create_image_views")'
             /\ CalledBefore("create_image_views", "create_semaphores")'
             /\ CalledBefore("create_semaphores", "create_framebuffers")'
             /\ Len(sc_calls') = 1 => UNCHANGED swapchainObjects
             /\ (sc_calls'[Len(sc_calls')] = "create_swapchain"
                 /\ last'.rebuilt = "failed")
                    => /\ ~swapchain'.live /\ ~framebuffers'.live
                       /\ ~present_image_views'.live /\ ~render_finished'.live
             /\ last'.rebuilt = "ok"
                    => /\ Len(sc_calls') = 10
                       /\ sc_calls'[Len(sc_calls')] = "create_framebuffers"
                       /\ \A i \in 1 .. 4 : swapchainObjects'[i].live
                       /\ \A i \in 1 .. 4 :
                              swapchainObjects'[i] # swapchainObjects[i]]_vars

\* C14 witness: a rebuild has failed at the create call for the new swapchain,
\* after the query and the four destructions.
C14_Witness ==
    /\ last.op = "begin_frame"
    /\ last.rebuilt = "failed"
    /\ Len(sc_calls) = 6
    /\ sc_calls[6] = "create_swapchain"
    /\ ~swapchain.live


\* C15 (as claimed): the image count asked for by init and by every rebuild is
\* min + 1 when the surface sets no maximum or min + 1 is within it, and the
\* maximum otherwise; it is at least min and, with a maximum, at most max.
C15_ImageCount ==
    (last.op = "init" \/ (last.op = "begin_frame" /\ last.rebuilt = "ok"))
        => /\ desired_image_count =
                  (IF surface_caps.max = 0
                      \/ surface_caps.min + 1 <= surface_caps.max
                   THEN surface_caps.min + 1
                   ELSE surface_caps.max)
           /\ desired_image_count >= surface_caps.min
           /\ surface_caps.max > 0 => desired_image_count <= surface_caps.max


\* C16: a create_swapchain that gets past the surface queries sets the
\* resolution to the size its caller passed (begin_frame passes the resolution
\* in effect) when the surface reports the undefined-extent sentinel, and to the
\* extent the surface reports otherwise.
C16_ExtentChoice ==
    [][(last'.op = "begin_frame" /\ last'.rebuilt # "none" /\ Len(sc_calls') > 1)
          => /\ CurrentExtent = [width |-> U32Max, height |-> U32Max]
                    => surface_resolution' =
                           [width |-> surface_resolution.width,
                            height |-> surface_resolution.height]
             /\ CurrentExtent # [width |-> U32Max, height |-> U32Max]
                    => surface_resolution' = CurrentExtent]_vars

\* C16 witness: the surface reports the sentinel, and a rebuild has kept the
\* size its caller passed, which is not the size of the window.
C16_Witness ==
    /\ last.op = "begin_frame"
    /\ last.rebuilt = "ok"
    /\ ~extent_defined
    /\ surface_resolution # win_size
    /\ surface_resolution.width # U32Max

\* C16 witness, second case: the surface reports an extent and a rebuild has
\* taken it, replacing another resolution.
C16_WitnessReported ==
    /\ last.op = "begin_frame"
    /\ last.rebuilt = "ok"
    /\ extent_defined
    /\ surface_resolution = win_size
    /\ win_size.width = 1024



\* C17: begin_frame leaves instance_cursor at 0; a non-empty draw_sprites
\* writes len * size_of(SpriteInstance) bytes at the cursor and advances the
\* cursor by exactly that many bytes, so the ranges written in one frame are
\* pairwise disjoint and contiguous from offset 0.
C17_CursorRanges ==
    /\ (last.op = "begin_frame" /\ pc = "frame")
          => (instance_cursor = 0 /\ writes = <<>>)
    /\ (last.op = "draw_sprites" /\ last.result = "ok" /\ last.len > 0)
          => /\ writes # <<>>
             /\ writes[Len(writes)].size = last.len * InstSize
             /\ instance_cursor = writes[Len(writes)].offset
                                     + writes[Len(writes)].size
    /\ \A k \in 1 .. Len(writes) :
          /\ writes[k].size > 0
          /\ writes[k].offset = IF k = 1 THEN 0
                                ELSE writes[k - 1].offset + writes[k - 1].size
    /\ \A j, k \in 1 .. Len(writes) :
          j < k => writes[j].offset + writes[j].size <= writes[k].offset

C17_Witness ==
    /\ pc = "frame"
    /\ last.op = "draw_sprites" /\ last.result = "ok"
    /\ Len(writes) = 2
    /\ writes[2].offset > 0


\* C18: the k-th successful create_texture (k = 0, 1, ...) returned id k, and
\* every id returned so far still denotes the texture it was returned for,
\* whatever create_texture calls, frames and swapchain rebuilds came after.
C18_TextureIds ==
    \A k \in 1 .. Len(issued) :
        /\ issued[k].id = k - 1
        /\ issued[k].id < Len(descriptor_sets)
        /\ descriptor_sets[issued[k].id + 1] = issued[k].handle
        /\ images[issued[k].id + 1] = issued[k].handle
        /\ \A j \in 1 .. Len(issued) : j < k => issued[j].id < issued[k].id

C18_Witness ==
    /\ Len(issued) = 2
    /\ issued[1].handle = 1 /\ issued[2].handle = 3
    /\ last.op = "begin_frame" /\ last.rebuilt = "ok"
    /\ pc = "frame"

\* C19: after any sequence of create_texture calls the five texture arrays
\* have one length, and entry i of each belongs to the texture with id i.
C19_ParallelArrays ==
    /\ Len(image_mem) = Len(images)
    /\ Len(image_views) = Len(images)
    /\ Len(samplers) = Len(images)
    /\ Len(descriptor_sets) = Len(images)
    /\ Len(issued) = Len(images)
    /\ \A i \in 1 .. Len(images) :
          LET t == CHOOSE x \in {issued[k] : k \in 1 .. Len(issued)} :
                       x.id = i - 1
          IN  /\ images[i] = t.handle
              /\ image_mem[i] = t.handle
              /\ image_views[i] = t.handle
              /\ samplers[i] = t.handle
              /\ descriptor_sets[i] = t.handle

C19_Witness ==
    /\ last.op = "create_texture" /\ last.result = "ok"
    /\ Len(images) = 2
    /\ tex_allocs = 3
    /\ images[1] = 2


\* C20: there are never more than MAX_TEXTURES textures: a create_texture
\* called with MAX_TEXTURES textures in place panics and has allocated
\* nothing, while the creation that brings the count to MAX_TEXTURES is
\* accepted (C20_Witness).
C20_TextureLimit ==
    [][/\ Len(images') <= MAX_TEXTURES
       /\ (last'.op = "create_texture" /\ Len(images) = MAX_TEXTURES)
             => /\ last'.result = "panic"
                /\ pc' = "panicked"
                /\ UNCHANGED texVars
       /\ (last'.op = "create_texture" /\ last'.result = "ok")
             => (Len(images) < MAX_TEXTURES /\ Len(images') = Len(images) + 1)
      ]_vars

C20_Witness ==
    /\ last.op = "create_texture" /\ last.result = "panic"
    /\ Len(images) = MAX_TEXTURES
    /\ Len(issued) = MAX_TEXTURES
    /\ issued[MAX_TEXTURES].id = MAX_TEXTURES - 1
    /\ tex_allocs = MAX_TEXTURES


\* pixels.len() differs from width * height * 4 taken as a mathematical
\* integer (a product past 32 bits is larger than any length drawn here)
LengthMismatch(t) ==
    \/ TexelBytesOverflows(t.width, t.height)
    \/ ToU32(t.len) # TexelBytes(t.width, t.height)

\* C21 (as claimed): every create_texture call whose pixels.len() is not
\* width * height * 4 as a mathematical integer panics before touching any
\* GPU resource, also when the product passes the 32-bit range.
C21_LengthChecked ==
    [][\A t \in TextureInputs, overflow_checks \in BOOLEAN,
          fail \in TexFailPoints :
          (LengthMismatch(t)
           /\ CreateTexture(t.width, t.height, t.len, overflow_checks, fail))
              => (last'.result = "panic" /\ UNCHANGED texVars)]_vars


\* C22: a create_texture whose map, image, memory, bind, command-buffer,
\* fence, wait, view, sampler or descriptor-set step fails returns an error,
\* and the texture arrays, the ids handed out and the texture count are what
\* they were before the call.
C22_ErrorLeavesTextures ==
    [][\A t \in {x \in TextureInputs : x.len > 3},
          fail \in TexFailPoints \ {"none", "staging", "memory_type"} :
          CreateTexture(t.width, t.height, t.len, FALSE, fail)
              => /\ last'.result = "err"
                 /\ pc' = pc
                 /\ UNCHANGED <<texArrays, issued>>
                 /\ \A k \in 1 .. Len(issued) :
                       descriptor_sets'[issued[k].id + 1] = issued[k].handle]_vars

C22_Witness ==
    /\ last.op = "create_texture" /\ last.result = "err"
    /\ pc = "idle"
    /\ Len(images) = 2 /\ Len(issued) = 2
    /\ issued[2].handle = 3
    /\ tex_allocs = 4


\* C23 (as claimed): a draw_sprites or end_frame call made while no frame is
\* being recorded, and a begin_frame made while one is, end in a panic and
\* change nothing else.
C23_SequencingEnforced ==
    [][/\ (pc = "idle" /\ last'.op \in {"draw_sprites", "end_frame"})
             => (pc' = "panicked" /\ UNCHANGED <<instance_cursor, frame_idx,
                                                 gpu_queue, cmds>>)
       /\ (pc = "frame" /\ last'.op = "begin_frame") => pc' = "panicked"]_vars


\* The positions of the calls of one renderer function in calls
CallsOf(fn) == {i \in 1 .. Len(calls) : calls[i].fn = fn}

\* C24: the handler of a RedrawRequested event calls begin_frame exactly
\* once, then bind_camera and draw_sprites any number of times, then
\* end_frame exactly once, on every path; textures are created before
\* begin_frame only, also by a handler that panics while loading.
C24_FrameCallOrder ==
    app_last = "redraw" =>
        /\ \A i \in 1 .. Len(calls) :
              calls[i].fn \in {"create_texture", "begin_frame", "bind_camera",
                               "draw_sprites", "end_frame"}
        /\ \A i \in CallsOf("create_texture"), b \in CallsOf("begin_frame") :
              i < b
        /\ app_pc = "panicked" => CallsOf("begin_frame") = {}
        /\ app_pc = "running" =>
              /\ Cardinality(CallsOf("begin_frame")) = 1
              /\ CallsOf("end_frame") = {Len(calls)}
              /\ \A i \in CallsOf("bind_camera") \cup CallsOf("draw_sprites"),
                    b \in CallsOf("begin_frame") : b < i /\ i < Len(calls)

C24_Witness ==
    /\ app_last = "redraw" /\ app_pc = "running"
    /\ CallsOf("create_texture") # {}
    /\ CallsOf("bind_camera") # {}
    /\ Cardinality(CallsOf("draw_sprites")) = 2
    /\ active_scene = 1


\* The positions of a call in tex_calls
TexCallsOf(call) == {i \in 1 .. Len(tex_calls) : tex_calls[i] = call}

Precedes(a, b) == \A i \in TexCallsOf(a), j \in TexCallsOf(b) : i < j

\* C25: the upload records the transition to transfer-dst, the copy and the
\* transition to shader-read-only in that order and submits them; the
\* temporary fence, the command buffer and the staging buffer are released,
\* and the texture is pushed and its id returned, only after the GPU has
\* completed the upload.
C25_UploadSynchronous ==
    /\ TexCallsOf("queue_submit") # {} =>
          /\ TexCallsOf("barrier_to_transfer_dst") # {}
          /\ TexCallsOf("copy_buffer_to_image") # {}
          /\ TexCallsOf("barrier_to_shader_read_only") # {}
          /\ Precedes("begin_command_buffer", "barrier_to_transfer_dst")
          /\ Precedes("barrier_to_transfer_dst", "copy_buffer_to_image")
          /\ Precedes("copy_buffer_to_image", "barrier_to_shader_read_only")
          /\ Precedes("barrier_to_shader_read_only", "queue_submit")
    /\ Precedes("queue_submit", "upload_complete")
    /\ \A c \in {"destroy_fence", "free_command_buffers", "destroy_buffer",
                  "free_memory", "push"} :
          TexCallsOf(c) # {} =>
              /\ TexCallsOf("upload_complete") # {}
              /\ Precedes("upload_complete", c)
    /\ (last.op = "create_texture" /\ last.result = "ok") =>
          (TexCallsOf("push") = {Len(tex_calls)}
           /\ TexCallsOf("destroy_buffer") # {})

C25_Witness ==
    /\ last.op = "create_texture" /\ last.result = "ok"
    /\ TexCallsOf("upload_complete") # {}
    /\ TexCallsOf("destroy_buffer") # {}
    /\ TexCallsOf("push") # {}
    /\ Len(images) = 2


\* C26 (as claimed): when init cannot create the instance, the surface, the
\* device or the swapchain, or finds no suitable physical device, it returns
\* an error value to its caller instead of panicking.
C26_InitErrorsReturned ==
    (app_last = "resumed"
     /\ calls[1].arg \in {"instance", "surface", "no_suitable_device",
                           "device", "swapchain"})
        => calls[1].result = "err"


\* C27: a draw_sprites with an empty batch returns at once, whatever texture
\* id the batch names: the cursor, the instance buffer, the command buffers
\* and every other field of the backend are what they were.
C27_EmptyBatchNoOp ==
    [][(last'.op = "draw_sprites" /\ last'.len = 0)
          => /\ last'.result = "ok"
             /\ pc' = pc
             /\ UNCHANGED <<instance_cursor, writes, cmds, gpu_queue,
                            in_flight_fence, frame_idx, current_img,
                            swapchain_rebuild, scVars, texVars, semVars>>]_vars

C27_Witness ==
    /\ last.op = "draw_sprites" /\ last.len = 0 /\ last.result = "ok"
    /\ pc = "frame"
    /\ descriptor_sets = <<>>
    /\ draws = 2


\* The places (batch, position) where an entity's instance stands in batches
InstancesOf(id) ==
    {<<b, k>> \in (1 .. Len(batches)) \X (0 .. MaxEntities + 1) :
        k \in 1 .. Len(batches[b].instances) /\ batches[b].instances[k] = id}

\* C28: after rebuild_batches every entity of the pool has exactly one
\* instance, in the batch of its texture; every instance is an entity of the
\* pool; no two batches have one texture and no batch is empty: nothing of
\* the batches of the frame before is left.
C28_Batches ==
    (app_last = "redraw" /\ app_pc = "running" /\ active_scene # NoScene) =>
        /\ \A id \in DOMAIN entities :
              /\ Cardinality(InstancesOf(id)) = 1
              /\ \A p \in InstancesOf(id) : batches[p[1]].tex = entities[id]
        /\ \A b \in 1 .. Len(batches) :
              /\ batches[b].instances # <<>>
              /\ \A k \in 1 .. Len(batches[b].instances) :
                    batches[b].instances[k] \in DOMAIN entities
              /\ \A c \in 1 .. Len(batches) :
                    batches[b].tex = batches[c].tex => b = c

C28_Witness ==
    /\ app_last = "redraw" /\ app_pc = "running"
    /\ Len(batches) = 1
    /\ Len(batches[1].instances) = 2
    /\ next_id = 2
    /\ active_scene = 1


\* a scene of type S has been registered with add_scene
Registered(S) == \E i \in 1 .. Len(scenes) : scenes[i].type = S

\* C29: the first add_scene makes its scene the active one and a later
\* add_scene leaves the active scene alone; set_start_scene::<S> makes a
\* scene of type S the active one when S was registered, wherever it stands
\* in the registration order, and otherwise panics with the active scene
\* unchanged.
C29_StartScene ==
    [][/\ Len(scenes') = Len(scenes) + 1 =>
              active_scene' = (IF scenes = <<>> THEN 0 ELSE active_scene)
       /\ \A S \in SceneTypes :
              SetStartScene(S) =>
                  IF Registered(S)
                  THEN /\ active_scene' \in 0 .. Len(scenes) - 1
                       /\ scenes[active_scene' + 1].type = S
                       /\ app_pc' = "setup"
                  ELSE /\ app_pc' = "panicked"
                       /\ active_scene' = active_scene]_vars

C29_Witness ==
    /\ app_last = "set_start_scene" /\ app_pc = "setup"
    /\ Len(scenes) = 2
    /\ scenes[1].type = "A" /\ scenes[2].type = "B"
    /\ active_scene = 1


\* C30 (as claimed): when begin_frame has begun the render pass, the
\* framebuffers, image views and render-finished semaphores are live handles
\* of the current swapchain, one per swapchain image, and current_img is an
\* index into them, after failed rebuild attempts too.
C30_FramebufferLive ==
    (last.op = "begin_frame" /\ pc = "frame") =>
        /\ swapchain.live
        /\ \A v \in {framebuffers, present_image_views, render_finished} :
              /\ v.live
              /\ v.gen = swapchain.gen
              /\ v.n = swapchain.n
        /\ current_img < framebuffers.n


\* begin_frame has nothing left to wait for: the slot's fence is signaled, the
\* queue is idle if a rebuild is pending, and an image can be acquired
BeginFrameUnblocked ==
    /\ WaitForFences(frame_idx)
    /\ swapchain_rebuild => DeviceWaitIdle
    /\ \/ swapchain_rebuild
       \/ \E idx \in 0 .. swapchain.n - 1 : rf_state[idx] = "unsignaled"

\* C31: while the queue goes on completing what was submitted, a begin_frame
\* called between frames returns: the fence of its slot is signaled, or the
\* submission of the end_frame that followed the slot's last begin_frame is
\* still to complete and signals it.
C31_BeginFrameReturns == (pc = "idle") ~> BeginFrameUnblocked

\* C31: a slot whose fence is not signaled has its submission in the queue
C31_FenceArmed ==
    \A s \in Slots :
        (pc = "idle" /\ ~in_flight_fence[s]) =>
            \E i \in 1 .. Len(gpu_queue) : gpu_queue[i].slot = s

C31_Witness ==
    /\ pc = "idle"
    /\ ~in_flight_fence[frame_idx]
    /\ Len(gpu_queue) = 2
    /\ last.op = "end_frame"


\* The backend draw calls made for the batches of one texture
ForwardedFor(tex) == {i \in 1 .. Len(forwarded) : forwarded[i].tex = tex}

\* The create_texture calls of the handler that load one texture
LoadsOf(tex) == {i \in CallsOf("create_texture") : calls[i].arg = tex}

\* C32: in a frame each batch whose texture is registered in the lut is
\* passed to the backend once per camera, with the slot the lut holds, and a
\* batch whose texture is not registered is not passed on; the slot the lut
\* holds after a load is the one create_texture returned to the latest load
\* of that id.
C32_DrawForwarding ==
    (app_last = "redraw" /\ app_pc = "running") =>
        /\ \A i \in 1 .. Len(forwarded) :
              /\ forwarded[i].tex \in DOMAIN lut
              /\ forwarded[i].idx = lut[forwarded[i].tex]
              /\ \E b \in 1 .. Len(batches) : batches[b].tex = forwarded[i].tex
        /\ \A b \in 1 .. Len(batches) :
              Cardinality(ForwardedFor(batches[b].tex)) =
                  IF batches[b].tex \in DOMAIN lut THEN cameras ELSE 0
        /\ \A tex \in TexIds :
              LoadsOf(tex) # {} =>
                  LET latest == CHOOSE i \in LoadsOf(tex) :
                                    \A j \in LoadsOf(tex) : j <= i
                      later == {j \in CallsOf("create_texture") : j > latest}
                  IN  /\ tex \in DOMAIN lut
                      /\ lut[tex] = tex_slots - 1 - Cardinality(later)

C32_Witness ==
    /\ app_last = "redraw" /\ app_pc = "running"
    /\ cameras = 1
    /\ Len(batches) = 2
    /\ forwarded = <<[tex |-> 1, idx |-> 0]>>
    /\ 0 \notin DOMAIN lut


\* C33 (as claimed): texture_meta of a TextureId whose load succeeded is the
\* size of its image, and texture_meta of a TextureId never loaded is None.
C33_TextureMeta ==
    \A tex \in TexIds :
        TextureMeta(metadata, tex) =
            IF tex \in DOMAIN lut THEN <<ImageSize(tex)>> ELSE <<>>


\* The positions in a handler's scene calls where fn is called on scene key
SceneCallsOf(trace, fn, key) ==
    {i \in 1 .. Len(trace) : trace[i].fn = fn /\ trace[i].scene = key}

\* C34 (as claimed): start is called on a scene only while an activation of it
\* is pending, and every update of a scene comes after the start of its
\* latest activation, whether the scene was activated in an earlier frame or
\* by a goto_scene applied earlier in the same handler.
C34_StartBeforeUpdate ==
    [][app_last' = "redraw" =>
          \A key \in 0 .. Len(scenes) - 1 :
              /\ \A j \in SceneCallsOf(scene_calls', "start", key) :
                    scenes[key + 1].must_start
              /\ \A j \in SceneCallsOf(scene_calls', "update", key) :
                    LET activations ==
                            {i \in SceneCallsOf(scene_calls', "activate", key) :
                                i < j}
                        starts ==
                            {i \in SceneCallsOf(scene_calls', "start", key) :
                                i < j}
                    IN  /\ \A a \in activations : \E b \in starts : a < b
                        /\ (activations = {} /\ starts = {}) =>
                               ~scenes[key + 1].must_start]_vars


\* The apply_commands calls of a handler
Applies(trace) == {i \in 1 .. Len(trace) : trace[i].fn = "apply"}

RECURSIVE CamerasSpawned(_)
CamerasSpawned(trace) ==
    IF trace = <<>> THEN 0
    ELSE Head(trace).commands.cameras + CamerasSpawned(Tail(trace))

\* C35: when the last apply_commands of a frame holds a goto_scene to a
\* registered scene, the pool is empty afterwards though the command set
\* spawned sprites, the target is active with must_start set, and the cameras
\* are those from before and those the frame's command sets spawned; when the
\* target is not registered, the active scene and the must_start flags stay
\* and the pool is the old pool with the spawned sprites.
C35_SceneSwitch ==
    [][(app_last' = "redraw" /\ app_pc' = "running" /\ Applies(scene_calls') # {}) =>
          LET trace == scene_calls'
              a == CHOOSE i \in Applies(trace) : \A j \in Applies(trace) : j <= i
              c == trace[a].commands
          IN  /\ cameras' = cameras + CamerasSpawned(trace)
              /\ (c.switch # "none" /\ Registered(c.switch)) =>
                     /\ entities' = <<>>
                     /\ active_scene' = scene_lookup[c.switch]
                     /\ scenes'[active_scene' + 1].type = c.switch
                     /\ scenes'[active_scene' + 1].must_start
                     /\ \A k \in 1 .. Len(scenes) :
                           k # active_scene' + 1 /\ trace[1].fn = "update" =>
                               scenes'[k] = scenes[k]
              /\ (c.switch # "none" /\ ~Registered(c.switch)
                     /\ trace[1].fn = "update") =>
                     /\ active_scene' = active_scene
                     /\ scenes' = scenes
                     /\ next_id' = next_id + Len(c.spawns)
                     /\ DOMAIN entities' =
                            DOMAIN entities \cup (next_id .. next_id' - 1)
                     /\ \A id \in DOMAIN entities : entities'[id] = entities[id]]_vars

C35_Witness ==
    /\ app_last = "redraw" /\ app_pc = "running"
    /\ Len(scene_calls) = 3
    /\ scene_calls[1].fn = "update"
    /\ scene_calls[2].commands.spawns # <<>>
    /\ scene_calls[3] = SceneCall("activate", 1)
    /\ entities = <<>>
    /\ next_id = 2
    /\ cameras = 1

C35_WitnessUnregistered ==
    /\ app_last = "redraw" /\ app_pc = "running"
    /\ Len(scene_calls) = 2
    /\ scene_calls[2].commands.switch = "B"
    /\ ~Registered("B")
    /\ DOMAIN entities = {0}

\* C40: entity ids are handed out in increasing order and never again: every
\* entity that enters the pool has an id no spawn_sprite returned before,
\* also after a scene switch emptied the pool, so inserting the spawned
\* sprites replaces no entity.
C40_FreshIds ==
    [][/\ next_id' >= next_id
       /\ \A id \in DOMAIN entities' :
             /\ id < next_id'
             /\ (id \notin DOMAIN entities \/ entities'[id] # entities[id]) =>
                    id >= next_id]_vars

C40_Witness ==
    /\ app_last = "redraw"
    /\ \E i \in 1 .. Len(scene_calls) : scene_calls[i].fn = "activate"
    /\ DOMAIN entities = {1}
    /\ next_id = 2


\* a list holds no key twice
NoDuplicates(list) ==
    \A i, j \in 1 .. Len(list) : list[i] = list[j] => i = j

\* C36 (as claimed): a key is in pressed exactly when its last keyboard event
\* was a press; pressed, just_pressed and just_released hold no key twice; a
\* press of a pressed key and a release of a key not pressed change nothing;
\* begin_frame empties just_pressed and just_released and leaves pressed and
\* the mouse position.
C36_InputState ==
    [][/\ \A k \in Keys : Contains(input_state'.pressed, k) <=> key_down'[k]
       /\ NoDuplicates(input_state'.pressed)
       /\ NoDuplicates(input_state'.just_pressed)
       /\ NoDuplicates(input_state'.just_released)
       /\ \A k \in Keys :
             (app_last' = "keyboard" /\ key_down'[k] = key_down[k]
                 /\ \A other \in Keys \ {k} : key_down'[other] = key_down[other])
                => input_state' = input_state
       /\ (app_last' = "redraw" /\ active_scene # NoScene) =>
             /\ input_state'.just_pressed = <<>>
             /\ input_state'.just_released = <<>>
             /\ input_state'.pressed = input_state.pressed
             /\ input_state'.mouse_pos = input_state.mouse_pos]_vars

\* C37: the keys for which just_pressed holds in a scene update are the keys
\* that went from up to down since the update before it: every such press is
\* reported to the first update after it, and to no later one.
C37_PressReportedOnce ==
    [][(app_last' = "redraw" /\ active_scene # NoScene) =>
          /\ seen' = {k \in Keys : unreported[k]}
          /\ \A k \in Keys : ~unreported'[k]]_vars

C37_Witness ==
    /\ app_last = "redraw"
    /\ seen = {"KeyA"}
    /\ ~key_down["KeyA"]
    /\ key_down["KeyB"]
    /\ input_state.pressed = <<"KeyB">>


\* C38: a Once timer with a preset above zero returns true on the tick at
\* which the dt ticked since new or reset reaches the preset, and on no
\* other; every later tick returns false and leaves remaining at zero;
\* finished holds from that tick on; reset makes remaining the preset again.
C38_OnceTimer ==
    [][/\ (timer_last'.op = "tick" /\ timer.mode = "Once" /\ timer.preset # 0) =>
             /\ timer_last'.result <=>
                    (timer_elapsed < timer.preset
                        /\ timer_elapsed + timer_last'.dt >= timer.preset)
             /\ timer_elapsed >= timer.preset =>
                    (~timer_last'.result /\ timer'.remaining = 0)
             /\ Finished(timer') <=> timer_elapsed' >= timer.preset
             /\ timer_fired' = IF Finished(timer') THEN 1 ELSE 0
       /\ timer_last'.op = "reset" =>
             (timer'.remaining = timer.preset /\ timer'.preset = timer.preset)]_vars

C38_Witness ==
    /\ timer.mode = "Once"
    /\ timer.preset = 3
    /\ timer_last = [op |-> "tick", dt |-> 1, result |-> FALSE]
    /\ timer_fired = 1
    /\ timer_elapsed = 5
    /\ Finished(timer)

\* C39: a Loop timer with a preset above zero returns true on exactly the
\* ticks whose dt is at least what remained, and is then back at the full
\* preset; after every tick remaining is above zero and at most the preset,
\* so finished never holds.
C39_LoopTimer ==
    [][(timer_last'.op = "tick" /\ timer.mode = "Loop" /\ timer.preset # 0) =>
          /\ timer_last'.result <=> timer_last'.dt >= timer.remaining
          /\ timer_last'.result => timer'.remaining = timer.preset
          /\ ~timer_last'.result =>
                 timer'.remaining = timer.remaining - timer_last'.dt
          /\ 0 < timer'.remaining /\ timer'.remaining <= timer.preset
          /\ ~Finished(timer')]_vars

C39_Witness ==
    /\ timer.mode = "Loop"
    /\ timer.preset = 2
    /\ timer_last = [op |-> "tick", dt |-> 4, result |-> TRUE]
    /\ timer.remaining = 2
    /\ timer_fired = 2

====
